---------------------------- MODULE Spec2Model ----------------------------
(***************************************************************************)
(* A model of the bitrust Bencode codec (src/bencode): the input cursor    *)
(* (read.rs), the Serde deserializer (de.rs) and the Serde serializer      *)
(* (ser.rs).                                                               *)
(*                                                                         *)
(* Bytes are the integers 0..255.  A SliceRead is the record               *)
(* [slice, index]; a `Result<T>` that a method of the deserializer returns *)
(* is the record [ok, val, err, read], where `read` is the cursor the      *)
(* method leaves behind.  Text (`&str`, `String`) is a sequence of Unicode *)
(* scalar values, turned into bytes and back by the UTF-8 coding.          *)
(*                                                                         *)
(* Integer types are [signed, bits].  The 8 and 16 bit types keep their    *)
(* exact range.  The values of a 64 bit type that the bounded inputs of    *)
(* this model can denote are all far below 2^63, so for `bits = 64` the    *)
(* checked arithmetic never overflows within the bounds.                   *)
(***************************************************************************)
EXTENDS Integers, Sequences, FiniteSets

VARIABLES
    op,      \* the API call made last: "new", "to_vec", "from_slice"
    ty,      \* the host type T of the call
    value,   \* the host value handed to the serializer (NoValue: none)
    data,    \* Serializer.data, the serializer's output buffer
    read,    \* Deserializer.read, the SliceRead [slice, index]
    result   \* what from_slice / from_str returned

vars == <<op, ty, value, data, read, result>>

---------------------------------------------------------------------------
(* token.rs and the byte literals of de.rs *)

INTEGER_START == 105
LIST_START == 108
MAP_START == 100
BYTES_DELIMITER == 58
END_TOKEN == 101
B_MINUS == 45
B_ZERO == 48
B_ONE == 49
B_NINE == 57

IsDigit(b) == B_ZERO <= b /\ b <= B_NINE

---------------------------------------------------------------------------
(* Host types and values *)

NoValue == [k |-> "None"]

U8 == [k |-> "int", signed |-> FALSE, bits |-> 8]
U16 == [k |-> "int", signed |-> FALSE, bits |-> 16]
U64 == [k |-> "int", signed |-> FALSE, bits |-> 64]
I8 == [k |-> "int", signed |-> TRUE, bits |-> 8]
I16 == [k |-> "int", signed |-> TRUE, bits |-> 16]
I64 == [k |-> "int", signed |-> TRUE, bits |-> 64]

IntTypes == {U8, U16, U64, I8, I16, I64}

RECURSIVE Pow2(_)
Pow2(n) == IF n = 0 THEN 1 ELSE 2 * Pow2(n - 1)

\* std::<T>::MAX and std::<T>::MIN of the exactly modelled widths
MaxOf(t) == IF t.signed THEN Pow2(t.bits - 1) - 1 ELSE Pow2(t.bits) - 1
MinOf(t) == IF t.signed THEN 0 - Pow2(t.bits - 1) ELSE 0

Exact(t) == t.bits <= 16

\* whether x is a value of the integer type t
Fits(x, t) ==
    IF Exact(t) THEN MinOf(t) <= x /\ x <= MaxOf(t)
    ELSE t.signed \/ x >= 0

Some(v) == [some |-> TRUE, v |-> v]
None == [some |-> FALSE, v |-> 0]

checked_mul(a, b, t) == IF Fits(a * b, t) THEN Some(a * b) ELSE None
checked_add(a, b, t) == IF Fits(a + b, t) THEN Some(a + b) ELSE None

---------------------------------------------------------------------------
(* Results *)

Ok(v, r) == [ok |-> TRUE, val |-> v, err |-> "", read |-> r]
Err(e, r) == [ok |-> FALSE, val |-> NoValue, err |-> e, read |-> r]

---------------------------------------------------------------------------
(* read.rs: impl Read for SliceRead (StrRead delegates to it) *)

SliceRead(bytes) == [slice |-> bytes, index |-> 0]

peek_byte(r) ==
    IF r.index < Len(r.slice) THEN Ok(r.slice[r.index + 1], r)
    ELSE Err("EOF", r)

peek_byte_nth(r, n) ==
    IF r.index + n < Len(r.slice) THEN Ok(r.slice[r.index + n + 1], r)
    ELSE Err("EOF", r)

next_byte(r) ==
    LET byte == peek_byte(r) IN
    IF byte.ok THEN Ok(byte.val, [r EXCEPT !.index = r.index + 1])
    ELSE byte

\* a variant that takes `end` for a count of bytes, not for the last offset
next_bytes_exclusive(r, end) ==
    IF r.index + end <= Len(r.slice)
    THEN Ok(SubSeq(r.slice, r.index + 1, r.index + end),
            [r EXCEPT !.index = r.index + end])
    ELSE Err("EOF", r)

next_bytes(r, end) ==
    IF r.index + end < Len(r.slice)
    THEN Ok(SubSeq(r.slice, r.index + 1, r.index + end + 1),
            [r EXCEPT !.index = r.index + end + 1])
    ELSE Err("EOF", r)

at_end(r) == r.index = Len(r.slice)

---------------------------------------------------------------------------
(* de.rs: the numeric parsers.  Each `loop` is a *_iter operator that runs *)
(* one iteration on the loop's locals `st`, and a *_loop operator that     *)
(* takes the outcome `it` of the last iteration and runs the rest.         *)

Continue(st) == [kind |-> "continue", st |-> st, res |-> NoValue]
Break(st) == [kind |-> "break", st |-> st, res |-> NoValue]
Return(st, res) == [kind |-> "return", st |-> st, res |-> res]

Locals(r) ==
    [read |-> r, integer |-> 0, is_first_loop |-> TRUE, is_negative |-> FALSE]

\* integer = integer.checked_mul(10)?.checked_add(digit)?, then the loop's tail
Accumulate(st, r, digit, t) ==
    LET m == checked_mul(st.integer, 10, t) IN
    IF ~m.some THEN Return(st, Err("IntegerOverflow", r))
    ELSE LET a == checked_add(m.v, digit, t) IN
         IF ~a.some THEN Return(st, Err("IntegerOverflow", r))
         ELSE Continue([st EXCEPT !.read = r, !.integer = a.v,
                                  !.is_first_loop = FALSE])

\* integer = integer.checked_mul(10)?, then the loop's tail
Shift(st, r, t) ==
    LET m == checked_mul(st.integer, 10, t) IN
    IF ~m.some THEN Return(st, Err("IntegerOverflow", r))
    ELSE Continue([st EXCEPT !.read = r, !.integer = m.v,
                             !.is_first_loop = FALSE])

parse_signed_iter(st, t) ==
    LET nb == next_byte(st.read) IN
    IF ~nb.ok THEN Return(st, nb)
    ELSE LET ch == nb.val
             r == nb.read
         IN  CASE B_ONE <= ch /\ ch <= B_NINE ->
                    Accumulate(st, r, ch - B_ZERO, t)
               [] ch = B_ZERO ->
                    LET next == peek_byte(r) IN
                    IF ~next.ok THEN Return(st, next)
                    ELSE IF next.val # END_TOKEN /\ st.is_first_loop
                         THEN Return(st, Err("ExpectedInteger", r))
                         ELSE Shift(st, r, t)
               [] ch = B_MINUS ->
                    LET next == peek_byte(r) IN
                    IF ~next.ok THEN Return(st, next)
                    ELSE IF next.val = B_ZERO \/ next.val = END_TOKEN
                            \/ ~st.is_first_loop
                         THEN Return(st, Err("ExpectedInteger", r))
                         ELSE Continue([st EXCEPT !.read = r,
                                                  !.is_negative = TRUE,
                                                  !.is_first_loop = FALSE])
               [] ch = END_TOKEN ->
                    IF st.is_first_loop
                    THEN Return(st, Err("ExpectedInteger", r))
                    ELSE Break([st EXCEPT !.read = r])
               [] OTHER -> Return(st, Err("ExpectedInteger", r))

RECURSIVE parse_signed_loop(_, _)
parse_signed_loop(it, t) ==
    CASE it.kind = "continue" -> parse_signed_loop(parse_signed_iter(it.st, t), t)
      [] it.kind = "break" ->
            Ok(IF it.st.is_negative THEN 0 - it.st.integer ELSE it.st.integer,
               it.st.read)
      [] OTHER -> it.res

parse_signed(r, t) == parse_signed_loop(Continue(Locals(r)), t)

\* a variant that consumes the byte it looks at behind a `0`
UnsignedIter_greedy(st, t, delim, error) ==
    LET nb == next_byte(st.read) IN
    IF ~nb.ok THEN Return(st, nb)
    ELSE LET ch == nb.val
             r == nb.read
         IN  CASE B_ONE <= ch /\ ch <= B_NINE ->
                    Accumulate(st, r, ch - B_ZERO, t)
               [] ch = B_ZERO ->
                    LET next == next_byte(r) IN
                    IF ~next.ok THEN Return(st, next)
                    ELSE IF next.val # delim /\ st.is_first_loop
                         THEN Return(st, Err(error, r))
                         ELSE Shift(st, next.read, t)
               [] ch = delim ->
                    IF st.is_first_loop
                    THEN Return(st, Err(error, r))
                    ELSE Break([st EXCEPT !.read = r])
               [] OTHER -> Return(st, Err(error, r))

\* parse_unsigned and parse_string_length are the same loop, with the end
\* delimiter `delim` and the error `error` of each
UnsignedIter(st, t, delim, error) ==
    LET nb == next_byte(st.read) IN
    IF ~nb.ok THEN Return(st, nb)
    ELSE LET ch == nb.val
             r == nb.read
         IN  CASE B_ONE <= ch /\ ch <= B_NINE ->
                    Accumulate(st, r, ch - B_ZERO, t)
               [] ch = B_ZERO ->
                    LET next == peek_byte(r) IN
                    IF ~next.ok THEN Return(st, next)
                    ELSE IF next.val # delim /\ st.is_first_loop
                         THEN Return(st, Err(error, r))
                         ELSE Shift(st, r, t)
               [] ch = delim ->
                    IF st.is_first_loop
                    THEN Return(st, Err(error, r))
                    ELSE Break([st EXCEPT !.read = r])
               [] OTHER -> Return(st, Err(error, r))

parse_unsigned_iter(st, t) ==
    UnsignedIter(st, t, END_TOKEN, "ExpectedUnsignedInteger")

RECURSIVE parse_unsigned_loop(_, _)
parse_unsigned_loop(it, t) ==
    CASE it.kind = "continue" -> parse_unsigned_loop(parse_unsigned_iter(it.st, t), t)
      [] it.kind = "break" -> Ok(it.st.integer, it.st.read)
      [] OTHER -> it.res

parse_unsigned(r, t) == parse_unsigned_loop(Continue(Locals(r)), t)

parse_string_length_iter(st, t) ==
    UnsignedIter(st, t, BYTES_DELIMITER, "ExpectedStringIntegerLength")

RECURSIVE parse_string_length_loop(_, _)
parse_string_length_loop(it, t) ==
    CASE it.kind = "continue" ->
            parse_string_length_loop(parse_string_length_iter(it.st, t), t)
      [] it.kind = "break" -> Ok(it.st.integer, it.st.read)
      [] OTHER -> it.res

parse_string_length(r, t) == parse_string_length_loop(Continue(Locals(r)), t)

---------------------------------------------------------------------------
(* de.rs: fn_deserialize_unsigned! / fn_deserialize_signed!.  The visitor  *)
(* of a primitive integer target returns the value it is given.            *)

HostInt(n) == [k |-> "Int", n |-> n]

WithVal(res, v) == [res EXCEPT !.val = v]

\* visitor.$visit(parsed?): the visitor of a primitive integer target
visit_integer(parsed) ==
    IF parsed.ok THEN WithVal(parsed, HostInt(parsed.val)) ELSE parsed

\* a variant that hands every `i` to the parser, without the look at `-`
deserialize_unsigned_unchecked(r, t) ==
    LET nb == next_byte(r) IN
    IF ~nb.ok THEN nb
    ELSE IF nb.val = INTEGER_START
         THEN visit_integer(parse_unsigned(nb.read, t))
         ELSE Err("ExpectedUnsignedInteger", nb.read)

deserialize_unsigned(r, t) ==
    LET nb == next_byte(r) IN
    IF ~nb.ok THEN nb
    ELSE IF nb.val = INTEGER_START
         THEN LET next == peek_byte(nb.read) IN
              IF ~next.ok THEN next
              ELSE IF next.val = B_MINUS
                   THEN Err("ExpectedUnsignedInteger", nb.read)
                   ELSE visit_integer(parse_unsigned(nb.read, t))
         ELSE Err("ExpectedUnsignedInteger", nb.read)

deserialize_signed(r, t) ==
    LET nb == next_byte(r) IN
    IF ~nb.ok THEN nb
    ELSE IF nb.val = INTEGER_START
         THEN visit_integer(parse_signed(nb.read, t))
         ELSE Err("ExpectedInteger", nb.read)

---------------------------------------------------------------------------
(* Text.  `str::as_bytes` / `str::len` and `str::from_utf8` are the UTF-8  *)
(* coding of a sequence of Unicode scalar values.                          *)

Utf8Char(c) ==
    IF c < 128 THEN <<c>>
    ELSE IF c < 2048 THEN <<192 + (c \div 64), 128 + (c % 64)>>
    ELSE IF c < 65536
         THEN <<224 + (c \div 4096), 128 + ((c \div 64) % 64), 128 + (c % 64)>>
         ELSE <<240 + (c \div 262144), 128 + ((c \div 4096) % 64),
                128 + ((c \div 64) % 64), 128 + (c % 64)>>

RECURSIVE as_bytes(_)
as_bytes(s) == IF s = <<>> THEN <<>> ELSE Utf8Char(Head(s)) \o as_bytes(Tail(s))

IsCont(b) == 128 <= b /\ b <= 191

\* the scalar value that starts at bytes[i] and its length, [n |-> 0] if none
Utf8At(bytes, i) ==
    LET b == bytes[i]
        has(n) == i + n <= Len(bytes) /\ \A j \in 1..n : IsCont(bytes[i + j])
        low(j) == bytes[i + j] - 128
    IN  IF b < 128 THEN [n |-> 1, c |-> b]
        ELSE IF 194 <= b /\ b <= 223 /\ has(1)
             THEN [n |-> 2, c |-> (b - 192) * 64 + low(1)]
        ELSE IF 224 <= b /\ b <= 239 /\ has(2)
             THEN LET c == (b - 224) * 4096 + low(1) * 64 + low(2) IN
                  IF c >= 2048 /\ ~(55296 <= c /\ c <= 57343)
                  THEN [n |-> 3, c |-> c] ELSE [n |-> 0, c |-> 0]
        ELSE IF 240 <= b /\ b <= 244 /\ has(3)
             THEN LET c == (b - 240) * 262144 + low(1) * 4096
                           + low(2) * 64 + low(3) IN
                  IF c >= 65536 /\ c <= 1114111
                  THEN [n |-> 4, c |-> c] ELSE [n |-> 0, c |-> 0]
        ELSE [n |-> 0, c |-> 0]

RECURSIVE Utf8From(_, _)
Utf8From(bytes, i) ==
    IF i > Len(bytes) THEN [ok |-> TRUE, s |-> <<>>]
    ELSE LET u == Utf8At(bytes, i) IN
         IF u.n = 0 THEN [ok |-> FALSE, s |-> <<>>]
         ELSE LET rest == Utf8From(bytes, i + u.n) IN
              IF rest.ok THEN [ok |-> TRUE, s |-> <<u.c>> \o rest.s] ELSE rest

from_utf8(bytes) == Utf8From(bytes, 1)

HostStr(s) == [k |-> "Str", s |-> s]
HostBytes(b) == [k |-> "Bytes", b |-> b]

---------------------------------------------------------------------------
(* de.rs: byte strings *)

\* match str::from_utf8(bytes?) { Ok(s) => s, Err(_) => return Err(..) }
str_from_utf8(bytes) ==
    IF ~bytes.ok THEN bytes
    ELSE LET string == from_utf8(bytes.val) IN
         IF string.ok THEN WithVal(bytes, HostStr(string.s))
         ELSE Err("InvalidUnicodeCodePoint", bytes.read)

\* parse_string after `let length = self.parse_string_length()?`
parse_string_of(length) ==
    IF ~length.ok THEN length
    ELSE IF length.val > 0
         THEN str_from_utf8(next_bytes(length.read, length.val - 1))
         ELSE WithVal(length, HostStr(<<>>))

parse_string(r) == parse_string_of(parse_string_length(r, U64))

\* Ok(self.read.next_bytes(..)?)
bytes_of(bytes) == IF ~bytes.ok THEN bytes ELSE WithVal(bytes, HostBytes(bytes.val))

\* a variant that takes the length itself for the offset of the last byte
parse_bytes_of_whole(length) ==
    IF ~length.ok THEN length
    ELSE IF length.val > 0
         THEN bytes_of(next_bytes(length.read, length.val))
         ELSE WithVal(length, HostBytes(<<>>))

\* parse_bytes after `let length = self.parse_string_length()?`
parse_bytes_of(length) ==
    IF ~length.ok THEN length
    ELSE IF length.val > 0
         THEN bytes_of(next_bytes(length.read, length.val - 1))
         ELSE WithVal(length, HostBytes(<<>>))

parse_bytes(r) == parse_bytes_of(parse_string_length(r, U64))

\* the visitor of a `&str` / `String` target returns the text it is given
deserialize_str(r) ==
    LET b == peek_byte(r) IN
    IF ~b.ok THEN b
    ELSE IF IsDigit(b.val) THEN parse_string(r)
         ELSE Err("ExpectedStringIntegerLength", r)

\* the visitor of a `&[u8]` target returns the bytes it is given
deserialize_bytes(r) ==
    LET b == peek_byte(r) IN
    IF ~b.ok THEN b
    ELSE IF IsDigit(b.val) THEN parse_bytes(r)
         ELSE Err("ExpectedStringIntegerLength", r)

---------------------------------------------------------------------------
(* de.rs: containers and the self-describing dispatch.  A target type is   *)
(* one of                                                                  *)
(*   [k |-> "int", signed, bits]   u8 .. i64                               *)
(*   STR, BYTES                    &str / String, &[u8]                    *)
(*   VecOf(T)                      Vec<T>                                  *)
(*   MapOf(K, T)                   HashMap<K, T>                           *)
(*   TupleOf(<<T1, .., Tn>>)       (T1, .., Tn)                            *)
(*   StructOf(fields)              a struct with #[derive(Deserialize)],   *)
(*                                 its fields <<name, type>> as declared   *)
(*   BOOL                          bool                                    *)
(*   CONTENT                       the buffer Serde fills through          *)
(*                                 deserialize_any for an untagged enum,   *)
(*                                 and IgnoredAny, which keeps nothing     *)
(*   VALUE                         tests/lib.rs: enum Value (untagged)     *)

STR == [k |-> "str"]
BYTES == [k |-> "bytes"]
CONTENT == [k |-> "content"]
VALUE == [k |-> "value"]
VecOf(t) == [k |-> "vec", elem |-> t]
MapOf(kt, vt) == [k |-> "map", key |-> kt, val |-> vt]
StructOf(fields) == [k |-> "struct", fields |-> fields]
TupleOf(elems) == [k |-> "tuple", elems |-> elems]
BOOL == [k |-> "bool"]

HostSeq(items) == [k |-> "Seq", items |-> items]
\* a map as the serializer is handed it: the entries <<key, value>> in the
\* order the map's iterator yields them
HostEntries(entries) == [k |-> "Map", entries |-> entries]
\* a map as a visitor builds it: insertion, a later entry replacing an
\* earlier one with the same key
HashMapOf(entries) ==
    [k |-> "HashMap",
     m |-> {entries[i] : i \in {j \in 1..Len(entries) :
                \A l \in (j + 1)..Len(entries) : entries[l][1] # entries[j][1]}}]

RECURSIVE Deserialize(_, _)
RECURSIVE deserialize_any(_)
RECURSIVE deserialize_seq(_, _)
RECURSIVE deserialize_map(_, _)
RECURSIVE next_element_seed(_, _)
RECURSIVE next_key_seed(_, _)
RECURSIVE next_value_seed(_, _)
RECURSIVE visit_seq(_, _, _)
RECURSIVE visit_seq_element(_, _, _)
RECURSIVE visit_tuple(_, _, _)
RECURSIVE visit_tuple_element(_, _, _)
RECURSIVE visit_map(_, _, _)
RECURSIVE visit_map_key(_, _, _)
RECURSIVE visit_map_value(_, _, _, _)
RECURSIVE visit_struct(_, _, _)
RECURSIVE visit_struct_key(_, _, _)
RECURSIVE visit_struct_value(_, _, _, _)
RECURSIVE visit_struct_ignored(_, _, _)
RECURSIVE MatchValue(_)

\* a variant that reports every failure of an element as the list's own
map_some_masked(e) == IF e.ok THEN WithVal(e, Some(e.val)) ELSE Err("ExpectedList", e.read)

\* Result::map(Some)
map_some(e) == IF e.ok THEN WithVal(e, Some(e.val)) ELSE e

\* impl SeqAccess for ListDeserializer
next_element_seed(r, seed) ==
    LET b == peek_byte(r) IN
    IF ~b.ok THEN b
    ELSE IF b.val = END_TOKEN THEN Ok(None, r)
         ELSE map_some(Deserialize(seed, r))

\* a variant that takes whatever stands at the place of a key for a key
next_key_seed_any(r, seed) ==
    LET b == peek_byte(r) IN
    IF ~b.ok THEN b
    ELSE IF b.val = END_TOKEN THEN Ok(None, r)
         ELSE map_some(Deserialize(seed, r))

\* a variant that reports the end of the input, where a key would stand, as
\* the missing end of the dictionary
next_key_seed_unclosed(r, seed) ==
    LET b == peek_byte(r) IN
    IF ~b.ok THEN Err("ExpectedDictionaryEnd", r)
    ELSE IF b.val = END_TOKEN THEN Ok(None, r)
         ELSE IF IsDigit(b.val) THEN map_some(Deserialize(seed, r))
              ELSE Err("ExpectedDictionaryKeyString", r)

\* impl MapAccess for DictionaryDeserializer
next_key_seed(r, seed) ==
    LET b == peek_byte(r) IN
    IF ~b.ok THEN b
    ELSE IF b.val = END_TOKEN THEN Ok(None, r)
         ELSE IF IsDigit(b.val) THEN map_some(Deserialize(seed, r))
              ELSE Err("ExpectedDictionaryKeyString", r)

next_value_seed(r, seed) == Deserialize(seed, r)

\* Visitor::visit_seq of Vec<T> (and of the content buffer): elements are
\* taken until next_element returns None; `e` is what next_element returned
visit_seq(r, seed, acc) == visit_seq_element(next_element_seed(r, seed), seed, acc)

visit_seq_element(e, seed, acc) ==
    IF ~e.ok THEN e
    ELSE IF e.val.some THEN visit_seq(e.read, seed, Append(acc, e.val.v))
         ELSE Ok(HostSeq(acc), e.read)

\* Visitor::visit_seq of a tuple: one element is taken for each of its n
\* types, a list that ends before is a custom error (invalid_length), and
\* the visitor returns behind the n-th without a look at what follows
visit_tuple(r, t, acc) ==
    IF Len(acc) = Len(t.elems) THEN Ok(HostSeq(acc), r)
    ELSE visit_tuple_element(next_element_seed(r, t.elems[Len(acc) + 1]), t, acc)

visit_tuple_element(e, t, acc) ==
    IF ~e.ok THEN e
    ELSE IF e.val.some THEN visit_tuple(e.read, t, Append(acc, e.val.v))
         ELSE Err("Message", e.read)

\* Visitor::visit_map of HashMap<K, T> (and of the content buffer): entries
\* are taken until next_key returns None; `key` is what next_key returned and
\* `v` what next_value did
visit_map(r, t, acc) == visit_map_key(next_key_seed(r, t.key), t, acc)

visit_map_key(key, t, acc) ==
    IF ~key.ok THEN key
    ELSE IF key.val.some
         THEN visit_map_value(next_value_seed(key.read, t.val), key.val.v, t, acc)
         ELSE Ok(IF t.key = CONTENT THEN HostEntries(acc) ELSE HashMapOf(acc),
                 key.read)

\* a variant that takes a key only when it is above the key before it
RECURSIVE key_above(_, _)
key_above(a, b) ==
    IF a = <<>> THEN FALSE
    ELSE IF b = <<>> THEN TRUE
    ELSE IF a[1] # b[1] THEN a[1] > b[1]
    ELSE key_above(Tail(a), Tail(b))

visit_map_value_ascending(v, key, t, acc) ==
    IF ~v.ok THEN v
    ELSE IF acc # <<>> /\ key.k = "Str" /\ acc[Len(acc)][1].k = "Str"
            /\ ~key_above(as_bytes(key.s), as_bytes(acc[Len(acc)][1].s))
         THEN Err("Message", v.read)
         ELSE visit_map(v.read, t, Append(acc, <<key, v.val>>))

visit_map_value(v, key, t, acc) ==
    IF ~v.ok THEN v
    ELSE visit_map(v.read, t, Append(acc, <<key, v.val>>))

\* The visitor that #[derive(Deserialize)] writes for a struct: a key is
\* read as a field identifier (deserialize_identifier), the value of a
\* declared field as the field's type and the value of any other key as
\* IgnoredAny; a field met twice or never met is a custom error.  `slots`
\* holds Some(value) or None for each declared field.
FieldIndex(t, name) ==
    IF \E i \in 1..Len(t.fields) : t.fields[i][1] = name
    THEN CHOOSE i \in 1..Len(t.fields) : t.fields[i][1] = name
    ELSE 0

NoFields(t) == [i \in 1..Len(t.fields) |-> None]

StructFrom(t, slots) ==
    [k |-> "Struct",
     fields |-> [i \in 1..Len(slots) |-> <<HostStr(t.fields[i][1]), slots[i].v>>]]

visit_struct(r, t, slots) == visit_struct_key(next_key_seed(r, STR), t, slots)

visit_struct_key(key, t, slots) ==
    IF ~key.ok THEN key
    ELSE IF key.val.some
         THEN IF FieldIndex(t, key.val.v.s) = 0
              THEN visit_struct_ignored(next_value_seed(key.read, CONTENT), t, slots)
              ELSE IF slots[FieldIndex(t, key.val.v.s)].some
                   THEN Err("Message", key.read)
                   ELSE visit_struct_value(
                            next_value_seed(key.read,
                                t.fields[FieldIndex(t, key.val.v.s)][2]),
                            FieldIndex(t, key.val.v.s), t, slots)
         ELSE IF \A i \in 1..Len(slots) : slots[i].some
              THEN Ok(StructFrom(t, slots), key.read)
              ELSE Err("Message", key.read)

visit_struct_value(v, i, t, slots) ==
    IF ~v.ok THEN v
    ELSE visit_struct(v.read, t, [slots EXCEPT ![i] = Some(v.val)])

visit_struct_ignored(v, t, slots) ==
    IF ~v.ok THEN v
    ELSE visit_struct(v.read, t, slots)

\* a variant that looks at the closing byte and leaves it unread
expect_end_peeked(visited, error) ==
    IF ~visited.ok THEN visited
    ELSE LET close == peek_byte(visited.read) IN
         IF ~close.ok THEN close
         ELSE IF close.val # END_TOKEN THEN Err(error, close.read)
              ELSE WithVal(close, visited.val)

\* after `let value = visitor.visit_*(..)?`: the next byte has to be `e`
expect_end(visited, error) ==
    IF ~visited.ok THEN visited
    ELSE LET close == next_byte(visited.read) IN
         IF ~close.ok THEN close
         ELSE IF close.val # END_TOKEN THEN Err(error, close.read)
              ELSE WithVal(close, visited.val)

\* deserialize_seq, and deserialize_tuple, which hands its visitor to it
deserialize_seq(r, t) ==
    LET nb == next_byte(r) IN
    IF ~nb.ok THEN nb
    ELSE IF nb.val = LIST_START
         THEN expect_end(IF t.k = "tuple" THEN visit_tuple(nb.read, t, <<>>)
                         ELSE visit_seq(nb.read, t.elem, <<>>),
                         "ExpectedListEnd")
         ELSE Err("ExpectedList", nb.read)

\* a variant that reports the error of a list
deserialize_map_as_list(r, t) ==
    LET nb == next_byte(r) IN
    IF ~nb.ok THEN nb
    ELSE IF nb.val = MAP_START
         THEN expect_end(IF t.k = "struct" THEN visit_struct(nb.read, t, NoFields(t))
                         ELSE visit_map(nb.read, t, <<>>),
                         "ExpectedDictionaryEnd")
         ELSE Err("ExpectedList", nb.read)

\* deserialize_map, and deserialize_struct, which hands its visitor to it
deserialize_map(r, t) ==
    LET nb == next_byte(r) IN
    IF ~nb.ok THEN nb
    ELSE IF nb.val = MAP_START
         THEN expect_end(IF t.k = "struct" THEN visit_struct(nb.read, t, NoFields(t))
                         ELSE visit_map(nb.read, t, <<>>),
                         "ExpectedDictionaryEnd")
         ELSE Err("ExpectedDictionary", nb.read)

\* a variant that hands every `i` to the signed parser, without the look at
\* the byte behind it
deserialize_any_signed(r) ==
    LET b == peek_byte(r) IN
    IF ~b.ok THEN b
    ELSE CASE IsDigit(b.val) -> deserialize_str(r)
           [] b.val = INTEGER_START -> deserialize_signed(r, I64)
           [] b.val = LIST_START -> deserialize_seq(r, VecOf(CONTENT))
           [] b.val = MAP_START -> deserialize_map(r, MapOf(CONTENT, CONTENT))
           [] OTHER -> Err("UnknownType", r)

\* deserialize_any, driven by the visitor of the content buffer
deserialize_any(r) ==
    LET b == peek_byte(r) IN
    IF ~b.ok THEN b
    ELSE CASE IsDigit(b.val) -> deserialize_str(r)
           [] b.val = INTEGER_START ->
                LET second == peek_byte_nth(r, 1) IN
                IF ~second.ok THEN second
                ELSE IF second.val # B_MINUS THEN deserialize_unsigned(r, U64)
                     ELSE deserialize_signed(r, I64)
           [] b.val = LIST_START -> deserialize_seq(r, VecOf(CONTENT))
           [] b.val = MAP_START -> deserialize_map(r, MapOf(CONTENT, CONTENT))
           [] OTHER -> Err("UnknownType", r)

\* a visitor that takes none of the visit_* calls this deserializer makes
\* (Serde's default: Err(invalid_type), a custom error)
visit_unexpected(parsed) ==
    IF ~parsed.ok THEN parsed ELSE Err("Message", parsed.read)

\* forward_to_deserialize_any! { bool .. }: deserialize_any, driven by the
\* visitor of bool, which takes visit_bool only
deserialize_bool(r) ==
    LET b == peek_byte(r) IN
    IF ~b.ok THEN b
    ELSE CASE IsDigit(b.val) -> visit_unexpected(deserialize_str(r))
           [] b.val = INTEGER_START ->
                LET second == peek_byte_nth(r, 1) IN
                IF ~second.ok THEN second
                ELSE IF second.val # B_MINUS
                     THEN visit_unexpected(deserialize_unsigned(r, U64))
                     ELSE visit_unexpected(deserialize_signed(r, I64))
           [] b.val = LIST_START \/ b.val = MAP_START ->
                Err("Message", next_byte(r).read)
           [] OTHER -> Err("UnknownType", r)

\* #[serde(untagged)] enum Value { Num(usize), String(String),
\* List(Vec<Value>), Map(HashMap<String, Value>) }: the first variant the
\* buffered content fits, [ok |-> FALSE] when it fits none
MatchValue(c) ==
    CASE c.k = "Int" -> [ok |-> c.n >= 0, v |-> c]
      [] c.k = "Str" -> [ok |-> TRUE, v |-> c]
      [] c.k = "Seq" ->
            LET ms == [i \in 1..Len(c.items) |-> MatchValue(c.items[i])] IN
            [ok |-> \A i \in 1..Len(ms) : ms[i].ok,
             v |-> HostSeq([i \in 1..Len(ms) |-> ms[i].v])]
      [] c.k = "Map" ->
            LET ms == [i \in 1..Len(c.entries) |-> MatchValue(c.entries[i][2])] IN
            [ok |-> \A i \in 1..Len(ms) : ms[i].ok /\ c.entries[i][1].k = "Str",
             v |-> HashMapOf([i \in 1..Len(ms) |-> <<c.entries[i][1], ms[i].v>>])]
      [] OTHER -> [ok |-> FALSE, v |-> c]

\* the derived Deserialize of Value: the content is buffered, then matched
untagged(content) ==
    IF ~content.ok THEN content
    ELSE LET m == MatchValue(content.val) IN
         IF m.ok THEN WithVal(content, m.v)
         ELSE Err("Message", content.read)

\* <T as Deserialize>::deserialize(&mut de)
Deserialize(t, r) ==
    CASE t.k = "int" ->
            IF t.signed THEN deserialize_signed(r, t) ELSE deserialize_unsigned(r, t)
      [] t.k = "str" -> deserialize_str(r)
      [] t.k = "bytes" -> deserialize_bytes(r)
      [] t.k = "vec" -> deserialize_seq(r, t)
      [] t.k = "tuple" -> deserialize_seq(r, t)
      [] t.k = "map" -> deserialize_map(r, t)
      [] t.k = "struct" -> deserialize_map(r, t)
      [] t.k = "bool" -> deserialize_bool(r)
      [] t.k = "content" -> deserialize_any(r)
      [] t.k = "value" -> untagged(deserialize_any(r))

\* from_trait after `let value = T::deserialize(&mut de)?`
require_end(v) ==
    IF ~v.ok THEN v
    ELSE IF at_end(v.read) THEN v
         ELSE Err("TrailingCharacters", v.read)

from_trait(r, t) == require_end(Deserialize(t, r))

from_slice(bytes, t) == from_trait(SliceRead(bytes), t)

---------------------------------------------------------------------------
(* ser.rs.  Every method takes the buffer `d` (Serializer.data) and        *)
(* returns it with its bytes appended; Vec<u8>'s write never fails.        *)

RECURSIVE Decimal(_)
Decimal(n) ==
    IF n < 10 THEN <<B_ZERO + n>>
    ELSE Append(Decimal(n \div 10), B_ZERO + (n % 10))

\* a variant that writes zero with a sign
to_string_negative_zero(v) ==
    IF v <= 0 THEN <<B_MINUS>> \o Decimal(0 - v) ELSE Decimal(v)

\* <integer as ToString>::to_string
to_string_integer(v) == IF v < 0 THEN <<B_MINUS>> \o Decimal(0 - v) ELSE Decimal(v)

serialize_integer(d, v) ==
    d \o <<INTEGER_START>> \o to_string_integer(v) \o <<END_TOKEN>>

\* a variant that writes the number of characters as the length
serialize_str_chars(d, s) ==
    d \o to_string_integer(Len(s)) \o <<BYTES_DELIMITER>> \o as_bytes(s)

serialize_str(d, s) ==
    d \o to_string_integer(Len(as_bytes(s))) \o <<BYTES_DELIMITER>> \o as_bytes(s)

\* "true" and "false"
TrueText == <<116, 114, 117, 101>>
FalseText == <<102, 97, 108, 115, 101>>

HostBool(b) == [k |-> "Bool", b |-> b]

serialize_bool(d, b) == serialize_str(d, IF b THEN TrueText ELSE FalseText)

serialize_bytes(d, b) == d \o b

serialize_seq(d) == d \o <<LIST_START>>

serialize_map(d) == d \o <<MAP_START>>

serialize_struct(d) == serialize_map(d)

\* SerializeSeq::end, SerializeMap::end, SerializeStruct::end
serialize_end(d) == d \o <<END_TOKEN>>

HostStruct(fields) == [k |-> "Struct", fields |-> fields]

\* Option<T>: Some(v) and None
HostSome(v) == [k |-> "Option", some |-> TRUE, v |-> v]
HostNone == [k |-> "Option", some |-> FALSE, v |-> NoValue]

RECURSIVE Serialize(_, _)

\* nothing is written for None
serialize_none(d) == d

\* Some(v) is written as v
serialize_some(d, v) == Serialize(d, v)
RECURSIVE serialize_elements(_, _)
RECURSIVE serialize_entries(_, _)

\* SerializeSeq::serialize_element for each element, in order
serialize_elements(d, items) ==
    IF items = <<>> THEN d
    ELSE serialize_elements(Serialize(d, Head(items)), Tail(items))

\* a variant that writes the last entry first
serialize_entries_reversed(d, entries) ==
    IF entries = <<>> THEN d
    ELSE Serialize(Serialize(serialize_entries(d, Tail(entries)), Head(entries)[1]),
                   Head(entries)[2])

\* SerializeMap::serialize_key then serialize_value (SerializeStruct::
\* serialize_field: the key, then the value) for each entry, in the order
\* the entries are handed over
serialize_entries(d, entries) ==
    IF entries = <<>> THEN d
    ELSE serialize_entries(
             Serialize(Serialize(d, Head(entries)[1]), Head(entries)[2]),
             Tail(entries))

\* <T as Serialize>::serialize(&mut ser)
Serialize(d, v) ==
    CASE v.k = "Int" -> serialize_integer(d, v.n)
      [] v.k = "Str" -> serialize_str(d, v.s)
      [] v.k = "Bytes" -> serialize_bytes(d, v.b)
      [] v.k = "Bool" -> serialize_bool(d, v.b)
      [] v.k = "Seq" -> serialize_end(serialize_elements(serialize_seq(d), v.items))
      [] v.k = "Map" -> serialize_end(serialize_entries(serialize_map(d), v.entries))
      [] v.k = "Struct" ->
            serialize_end(serialize_entries(serialize_struct(d), v.fields))
      [] v.k = "Option" ->
            IF v.some THEN serialize_some(d, v.v) ELSE serialize_none(d)

to_vec(v) == Serialize(<<>>, v)

\* String::from_utf8(ser.data).map_err(|_| Error::InvalidUTF8)
string_of(d) ==
    IF from_utf8(d).ok THEN [ok |-> TRUE, data |-> d, err |-> ""]
    ELSE [ok |-> FALSE, data |-> <<>>, err |-> "InvalidUTF8"]

\* to_string: to_vec, then String::from_utf8 on the buffer
to_string(v) == string_of(to_vec(v))

---------------------------------------------------------------------------
(* read.rs and parse_string / parse_bytes on a machine word.  `usize` has  *)
(* WordBits bits; a slice is at most isize::MAX bytes long.  What an       *)
(* addition that leaves the word does depends on the build: with overflow  *)
(* checks (debug) it panics, without (release) it wraps.  A panic is the   *)
(* result Panic, the cursor left as it was.  The operators above are these *)
(* with a word that no bounded input can leave.                            *)

WordBits == 4

Word == Pow2(WordBits)

\* usize::MAX and isize::MAX
UsizeMax == Word - 1
IsizeMax == (Word \div 2) - 1

USIZE == [k |-> "int", signed |-> FALSE, bits |-> WordBits]

Debug == [k |-> "Build", overflow_checks |-> TRUE]
Release == [k |-> "Build", overflow_checks |-> FALSE]

Panic(r) == [ok |-> FALSE, val |-> NoValue, err |-> "panic", read |-> r]

\* a + b on usize: None where the build panics
usize_add(a, b, build) ==
    IF a + b <= UsizeMax THEN Some(a + b)
    ELSE IF build.overflow_checks THEN None
         ELSE Some((a + b) % Word)

peek_byte_nth_usize(r, n, build) ==
    LET sum == usize_add(r.index, n, build) IN
    IF ~sum.some THEN Panic(r)
    ELSE IF sum.v < Len(r.slice) THEN Ok(r.slice[sum.v + 1], r)
         ELSE Err("EOF", r)

\* &self.slice[self.index..=last]: the range index..last + 1, which panics
\* when it starts behind its end (last < usize::MAX < slice.len() here)
slice_inclusive(r, last) ==
    IF r.index > last + 1 THEN Panic(r)
    ELSE Ok(SubSeq(r.slice, r.index + 1, last + 1), r)

\* self.index += end + 1; Ok(bytes)
advance(bytes, end, build) ==
    IF ~bytes.ok THEN bytes
    ELSE LET step == usize_add(end, 1, build) IN
         IF ~step.some THEN Panic(bytes.read)
         ELSE LET index == usize_add(bytes.read.index, step.v, build) IN
              IF ~index.some THEN Panic(bytes.read)
              ELSE Ok(bytes.val, [bytes.read EXCEPT !.index = index.v])

next_bytes_usize(r, end, build) ==
    LET sum == usize_add(r.index, end, build) IN
    IF ~sum.some THEN Panic(r)
    ELSE IF sum.v < Len(r.slice) THEN advance(slice_inclusive(r, sum.v), end, build)
         ELSE Err("EOF", r)

\* parse_string / parse_bytes after `let length = self.parse_string_length()?`
parse_string_usize(length, build) ==
    IF ~length.ok THEN length
    ELSE IF length.val > 0
         THEN str_from_utf8(next_bytes_usize(length.read, length.val - 1, build))
         ELSE WithVal(length, HostStr(<<>>))

parse_bytes_usize(length, build) ==
    IF ~length.ok THEN length
    ELSE IF length.val > 0
         THEN bytes_of(next_bytes_usize(length.read, length.val - 1, build))
         ELSE WithVal(length, HostBytes(<<>>))

\* deserialize_str / deserialize_bytes
deserialize_usize(t, r, build) ==
    LET b == peek_byte(r) IN
    IF ~b.ok THEN b
    ELSE IF IsDigit(b.val)
         THEN IF t = STR THEN parse_string_usize(parse_string_length(r, USIZE), build)
              ELSE parse_bytes_usize(parse_string_length(r, USIZE), build)
         ELSE Err("ExpectedStringIntegerLength", r)

\* from_slice::<&str> / from_slice::<&[u8]>
from_slice_usize(bytes, t, build) ==
    require_end(deserialize_usize(t, SliceRead(bytes), build))

---------------------------------------------------------------------------
(* decoder.rs: the decoder that came before the Serde one.  Decoder.data   *)
(* is a std::io::Cursor over the bytes of the text, modelled as the record *)
(* [slice, index] with index the cursor's position.  A Value is Int(n),    *)
(* Str(bytes), List(items) or Dict(BTreeMap), written HostInt, HostBytes,  *)
(* HostSeq and BTreeMapOf.  The integers the bounded inputs denote are far *)
(* inside i64 and usize, so str::parse never overflows within the bounds.  *)

Decoder_new(text) == [slice |-> as_bytes(text), index |-> 0]

\* Decoder::read for a buffer of n bytes: Cursor::read copies what is left,
\* at most n bytes, and moves the position past it
Decoder_read(c, n) ==
    IF c.index + n <= Len(c.slice)
    THEN Ok(SubSeq(c.slice, c.index + 1, c.index + n),
            [c EXCEPT !.index = c.index + n])
    ELSE Err("EOF", [c EXCEPT !.index = Len(c.slice)])

Decoder_read_byte(c) ==
    LET buf == Decoder_read(c, 1) IN
    IF buf.ok THEN WithVal(buf, buf.val[1]) ELSE buf

Decoder_peek_byte(c) ==
    LET byte == Decoder_read_byte(c) IN
    IF byte.ok THEN Ok(byte.val, [byte.read EXCEPT !.index = byte.read.index - 1])
    ELSE byte

Decoder_expect_byte(c, expect) ==
    LET byte == Decoder_read_byte(c) IN
    IF ~byte.ok THEN byte
    ELSE IF byte.val = expect THEN byte
         ELSE Err("UnexpectedSymbol", byte.read)

\* what str::parse makes of a buffer of digits
RECURSIVE from_digits(_)
from_digits(buffer) ==
    IF buffer = <<>> THEN 0
    ELSE from_digits(SubSeq(buffer, 1, Len(buffer) - 1)) * 10
            + (buffer[Len(buffer)] - B_ZERO)

\* buffer.parse::<i64>(): an optional sign, then at least one digit
parse_i64(buffer) ==
    IF buffer # <<>> /\ buffer[1] = B_MINUS
    THEN IF Len(buffer) > 1 /\ \A i \in 2..Len(buffer) : IsDigit(buffer[i])
         THEN Some(0 - from_digits(Tail(buffer))) ELSE None
    ELSE IF buffer # <<>> /\ \A i \in 1..Len(buffer) : IsDigit(buffer[i])
         THEN Some(from_digits(buffer)) ELSE None

\* buffer_len.parse::<usize>(): at least one digit
parse_usize(buffer) ==
    IF buffer # <<>> /\ \A i \in 1..Len(buffer) : IsDigit(buffer[i])
    THEN Some(from_digits(buffer)) ELSE None

\* buffer.push(byte as char); is_zeroth = false
Push(st, c, byte) ==
    Continue([st EXCEPT !.data = c, !.buffer = Append(st.buffer, byte),
                        !.is_zeroth = FALSE])

decode_int_iter(st) ==
    LET rb == Decoder_read_byte(st.data) IN
    IF ~rb.ok THEN Return(st, rb)
    ELSE LET byte == rb.val
             c == rb.read
         IN  CASE B_ONE <= byte /\ byte <= B_NINE -> Push(st, c, byte)
               [] byte = B_ZERO ->
                    LET next == Decoder_peek_byte(c) IN
                    IF ~next.ok THEN Return(st, next)
                    ELSE IF next.val # END_TOKEN /\ st.is_zeroth
                         THEN Return(st, Err("DataError", c))
                         ELSE Push(st, c, byte)
               [] byte = B_MINUS ->
                    LET next == Decoder_peek_byte(c) IN
                    IF ~next.ok THEN Return(st, next)
                    ELSE IF next.val = B_ZERO \/ ~st.is_zeroth
                         THEN Return(st, Err("DataError", c))
                         ELSE Push(st, c, byte)
               [] byte = END_TOKEN -> Break([st EXCEPT !.data = c])
               [] OTHER -> Return(st, Err("ParseError", c))

RECURSIVE decode_int_loop(_)
decode_int_loop(it) ==
    CASE it.kind = "continue" -> decode_int_loop(decode_int_iter(it.st))
      [] it.kind = "break" ->
            IF parse_i64(it.st.buffer).some
            THEN Ok(HostInt(parse_i64(it.st.buffer).v), it.st.data)
            ELSE Err("ParseError", it.st.data)
      [] OTHER -> it.res

\* decode_int after self.expect_byte(b'i')
decode_int_of(expected) ==
    IF ~expected.ok THEN expected
    ELSE decode_int_loop(
            Continue([data |-> expected.read, buffer |-> <<>>, is_zeroth |-> TRUE]))

decode_int(c) == decode_int_of(Decoder_expect_byte(c, INTEGER_START))

decode_str_iter(st) ==
    LET rb == Decoder_read_byte(st.data) IN
    IF ~rb.ok THEN Return(st, rb)
    ELSE CASE IsDigit(rb.val) ->
                Continue([st EXCEPT !.data = rb.read,
                                    !.buffer = Append(st.buffer, rb.val)])
           [] rb.val = BYTES_DELIMITER -> Break([st EXCEPT !.data = rb.read])
           [] OTHER -> Return(st, Err("ParseError", rb.read))

\* Ok(Value::Str(Bytes(buffer.to_vec()))) after self.read(&mut buffer[..])?
str_of(buffer) == IF ~buffer.ok THEN buffer ELSE WithVal(buffer, HostBytes(buffer.val))

RECURSIVE decode_str_loop(_)
decode_str_loop(it) ==
    CASE it.kind = "continue" -> decode_str_loop(decode_str_iter(it.st))
      [] it.kind = "break" ->
            IF parse_usize(it.st.buffer).some
            THEN str_of(Decoder_read(it.st.data, parse_usize(it.st.buffer).v))
            ELSE Err("ParseError", it.st.data)
      [] OTHER -> it.res

decode_str(c) ==
    decode_str_loop(Continue([data |-> c, buffer |-> <<>>, is_zeroth |-> TRUE]))

\* a dictionary as BTreeMap::insert builds it: a later entry replaces an
\* earlier one with the same key
BTreeMapOf(entries) ==
    [k |-> "BTreeMap",
     m |-> {entries[i] : i \in {j \in 1..Len(entries) :
                \A l \in (j + 1)..Len(entries) : entries[l][1] # entries[j][1]}}]

RECURSIVE decode_list(_)
RECURSIVE decode_list_loop(_, _)
RECURSIVE decode_list_next(_, _)
RECURSIVE decode_list_push(_, _)
RECURSIVE decode_dict(_)
RECURSIVE decode_dict_loop(_, _)
RECURSIVE decode_dict_key(_, _)
RECURSIVE decode_dict_value(_, _)
RECURSIVE decode_dict_of(_, _, _)
RECURSIVE decode_dict_insert(_, _, _)

\* the `match` on a peeked byte that picks the decode_* method; `other` is
\* the error of the default arm
decode_match(byte, c, other) ==
    CASE byte = INTEGER_START -> decode_int(c)
      [] IsDigit(byte) -> decode_str(c)
      [] byte = LIST_START -> decode_list(c)
      [] byte = MAP_START -> decode_dict(c)
      [] OTHER -> Err(other, c)

\* one turn of decode_list's loop, from `let next = self.peek_byte()?`
decode_list_loop(c, list) == decode_list_next(Decoder_peek_byte(c), list)

decode_list_next(next, list) ==
    IF ~next.ok THEN next
    ELSE IF next.val = END_TOKEN
         THEN WithVal(Decoder_read_byte(next.read), HostSeq(list))
         ELSE decode_list_push(decode_match(next.val, next.read, "ParseError"), list)

\* list.push(value)
decode_list_push(v, list) ==
    IF ~v.ok THEN v
    ELSE decode_list_loop(v.read, Append(list, v.val))

decode_list(c) ==
    LET expected == Decoder_expect_byte(c, LIST_START) IN
    IF ~expected.ok THEN expected
    ELSE decode_list_loop(expected.read, <<>>)

\* one turn of decode_dict's loop, from `let next_key = self.peek_byte()?`
decode_dict_loop(c, dict) == decode_dict_key(Decoder_peek_byte(c), dict)

decode_dict_key(next_key, dict) ==
    IF ~next_key.ok THEN next_key
    ELSE CASE B_ONE <= next_key.val /\ next_key.val <= B_NINE ->
                decode_dict_value(decode_str(next_key.read), dict)
           [] next_key.val = END_TOKEN ->
                WithVal(Decoder_read_byte(next_key.read), BTreeMapOf(dict))
           [] OTHER -> Err("NonStringKey", next_key.read)

\* from `let next_value = self.peek_byte()?`, `key` what decode_str returned
decode_dict_value(key, dict) ==
    IF ~key.ok THEN key
    ELSE decode_dict_of(Decoder_peek_byte(key.read), key.val, dict)

decode_dict_of(next_value, key, dict) ==
    IF ~next_value.ok THEN next_value
    ELSE decode_dict_insert(
            decode_match(next_value.val, next_value.read, "ParseError"), key, dict)

\* dict.insert(k, value)
decode_dict_insert(v, key, dict) ==
    IF ~v.ok THEN v
    ELSE decode_dict_loop(v.read, Append(dict, <<key.b, v.val>>))

decode_dict(c) ==
    LET expected == Decoder_expect_byte(c, MAP_START) IN
    IF ~expected.ok THEN expected
    ELSE decode_dict_loop(expected.read, <<>>)

\* a variant that takes a value only when it is the whole input
Decoder_decode_whole(c) ==
    LET byte == Decoder_peek_byte(c) IN
    IF ~byte.ok THEN byte
    ELSE require_end(decode_match(byte.val, byte.read, "NonExistingType"))

Decoder_decode(c) ==
    LET byte == Decoder_peek_byte(c) IN
    IF ~byte.ok THEN byte
    ELSE decode_match(byte.val, byte.read, "NonExistingType")

\* decode(data: &str)
decode(text) == Decoder_decode(Decoder_new(text))

---------------------------------------------------------------------------
(* The state machine: a caller of the crate's API.  Serializer::new() and  *)
(* a cursor over nothing yet are the state after construction.             *)

NoType == [k |-> "none"]
NoResult == [ok |-> FALSE, val |-> NoValue, err |-> "none"]

ResultOf(res) == [ok |-> res.ok, val |-> res.val, err |-> res.err]

Init ==
    /\ op = "new"
    /\ ty = NoType
    /\ value = NoValue
    /\ data = <<>>
    /\ read = SliceRead(<<>>)
    /\ result = NoResult

\* the call returned `out`: Ok(text) or Err(e)
Encoded(out) ==
    /\ data' = out.data
    /\ result' = [ok |-> out.ok, val |-> NoValue, err |-> out.err]

\* the call returned `res`, the cursor dropped where it stood
Decoded(res) ==
    /\ read' = res.read
    /\ result' = ResultOf(res)

\* to_string(&v) for a value v of type t
ToString(t, v) ==
    /\ Encoded(to_string(v))
    /\ op' = "to_string"
    /\ ty' = t
    /\ value' = v
    /\ UNCHANGED read

\* to_vec(&v) for a value v of type t
ToVec(t, v) ==
    /\ data' = to_vec(v)
    /\ op' = "to_vec"
    /\ ty' = t
    /\ value' = v
    /\ UNCHANGED <<read, result>>

\* from_slice::<t>(bytes) / from_str::<t>(bytes) on a fresh input
FromSlice(t, bytes) ==
    /\ Decoded(from_slice(bytes, t))
    /\ op' = "from_slice"
    /\ ty' = t
    /\ UNCHANGED <<value, data>>

\* from_str::<ty>(&s), s the text to_string returned, `extra` appended to it
FromStrOfOutput(extra) ==
    /\ op = "to_string"
    /\ result.ok
    /\ Decoded(from_slice(data \o extra, ty))
    /\ op' = "from_str"
    /\ UNCHANGED <<ty, value, data>>

\* T::deserialize(&mut Deserializer::from_slice(bytes)): the value is taken
\* off the front of the input and the rest is left to the caller
DeserializeOn(t, bytes) ==
    /\ Decoded(Deserialize(t, SliceRead(bytes)))
    /\ op' = "deserialize"
    /\ ty' = t
    /\ UNCHANGED <<value, data>>

\* decoder::decode(text): the Decoder is dropped where its cursor stood
Decode(text) ==
    /\ Decoded(decode(text))
    /\ op' = "decode"
    /\ ty' = NoType
    /\ UNCHANGED <<value, data>>

\* SliceRead::new(bytes), in a build; the calls of the Read trait on it,
\* each with its argument kept in `value`
ReadOps == {"SliceRead::new", "peek_byte", "peek_byte_nth", "next_byte", "next_bytes"}

New(bytes, build) ==
    /\ op = "new"
    /\ read' = SliceRead(bytes)
    /\ op' = "SliceRead::new"
    /\ ty' = build
    /\ UNCHANGED <<value, data, result>>

\* the call `name` with the argument `arg` returned `res`
Called(name, arg, res) ==
    /\ op \in ReadOps
    /\ Decoded(res)
    /\ op' = name
    /\ value' = HostInt(arg)
    /\ UNCHANGED <<ty, data>>

PeekByte == Called("peek_byte", 0, peek_byte(read))

PeekByteNth(n) == Called("peek_byte_nth", n, peek_byte_nth_usize(read, n, ty))

NextByte == Called("next_byte", 0, next_byte(read))

NextBytes(end) == Called("next_bytes", end, next_bytes_usize(read, end, ty))

\* from_slice::<t>(bytes) in a build
FromSliceUsize(t, bytes, build) ==
    /\ Decoded(from_slice_usize(bytes, t, build))
    /\ op' = "from_slice"
    /\ ty' = t
    /\ value' = build
    /\ UNCHANGED data

---------------------------------------------------------------------------
(* Bounded inputs *)

\* how far from 0, MIN and MAX of a type the sampled integers reach
Band == 11
\* the longest run of bytes between `i` and the end of a raw integer input
MaxBody == 5

RECURSIVE Pow10(_)
Pow10(n) == IF n = 0 THEN 1 ELSE 10 * Pow10(n - 1)

Near(x) == (x - Band)..(x + Band)

\* the integers tried on a type: every value of an 8 bit type; for the wider
\* ones those around 0, around the 8 and 16 bit bounds and the powers of ten
Sampled ==
    UNION {Near(x) : x \in {0, 0 - 32768, 0 - 128, 127, 255, 32767, 65535}}
        \cup {Pow10(n) : n \in 1..6} \cup {0 - Pow10(n) : n \in 1..6}
        \cup ((0 - 140)..270)

RECURSIVE StringsUpTo(_, _)
StringsUpTo(A, n) ==
    IF n = 0 THEN {<<>>}
    ELSE LET S == StringsUpTo(A, n - 1) IN
         S \cup {Append(s, a) : s \in {x \in S : Len(x) = n - 1}, a \in A}

\* the bytes of raw integer bodies: `e`, `-`, `0`, the digit `8` (888 is past
\* the 8 bit bounds) and `x`, a byte that is no part of an integer
BodyBytes == {END_TOKEN, B_MINUS, B_ZERO, 56, 120}

\* raw inputs for a typed integer decode: `i` and every body, for the 8 bit
\* types; for every type the decimal numerals of the sampled integers and
\* the inputs of at most two bytes
RawBodies == {<<INTEGER_START>> \o b : b \in StringsUpTo(BodyBytes, MaxBody)}

RawNumerals ==
    {<<INTEGER_START>> \o to_string_integer(x) \o <<END_TOKEN>> : x \in Sampled}
        \cup StringsUpTo(BodyBytes \cup {INTEGER_START}, 2)

RawIntCases ==
    {[t |-> t, bytes |-> b] : t \in {U8, I8}, b \in RawBodies}
        \cup {[t |-> t, bytes |-> b] : t \in IntTypes, b \in RawNumerals}

---------------------------------------------------------------------------
(* SpecInt: an integer of every type is encoded and the text decoded as    *)
(* the same type.                                                          *)

IntCases == {[t |-> t, v |-> HostInt(x)] : t \in IntTypes, x \in Sampled}

ToStringInt ==
    /\ op = "new"
    /\ \E c \in {c \in IntCases : Fits(c.v.n, c.t)} : ToString(c.t, c.v)

FromStr == FromStrOfOutput(<<>>)

NextInt == ToStringInt \/ FromStr

SpecInt == Init /\ [][NextInt]_vars

(* SpecDe: raw bytes are decoded as an integer type.                       *)

FromSliceInt ==
    /\ op = "new"
    /\ \E c \in RawIntCases : FromSlice(c.t, c.bytes)

NextDe == FromSliceInt

SpecDe == Init /\ [][NextDe]_vars

(* SpecSer: texts, byte strings, maps and structs are encoded.             *)

\* the longest sampled text and byte string; the most entries of a map
MaxText == 2
MaxEntries == 2

\* `a`, a character of two bytes and one of three
TextChars == {97, 233, 10084}
\* `a`, `:`, a digit and a byte that is no UTF-8
RawBytes == {97, 58, 49, 240}

\* ten and eleven bytes, for a length of more than one digit
LongText == [i \in 1..10 |-> 97]

Texts == StringsUpTo(TextChars, MaxText) \cup {LongText, Append(LongText, 233)}

ByteStrings == StringsUpTo(RawBytes, MaxText) \cup {LongText}

KeyNames == {<<97>>, <<98>>, <<97, 98>>, <<233>>}

Injective(q) == \A i, j \in 1..Len(q) : q[i][1] = q[j][1] => i = j

\* the entries of a map or the fields of a struct, in every order, with
\* distinct keys and integer values
EntryLists ==
    {q \in StringsUpTo({<<HostStr(n), HostInt(x)>> : n \in KeyNames, x \in {1, 2}},
                       MaxEntries) : Injective(q)}

\* tests/ser.rs, structs: StringTest, with the fields string: String,
\* strings: Vec<String> and string_slice: &str, declared in this order
StringTest ==
    HostStruct(<< <<HostStr(<<115, 116, 114, 105, 110, 103>>), HostStr(LongText)>>,
                  <<HostStr(<<115, 116, 114, 105, 110, 103, 115>>),
                    HostSeq(<<HostStr(<<97>>), HostStr(<<98>>)>>)>>,
                  <<HostStr(<<115, 116, 114, 105, 110, 103, 95, 115, 108, 105, 99,
                              101>>), HostStr(<<233>>)>> >>)

SerCases ==
    {[t |-> STR, v |-> HostStr(x)] : x \in Texts}
        \cup {[t |-> [k |-> "struct"], v |-> StringTest]}
        \cup {[t |-> BYTES, v |-> HostBytes(x)] : x \in ByteStrings}
        \cup {[t |-> MapOf(STR, U8), v |-> HostEntries(q)] : q \in EntryLists}
        \cup {[t |-> [k |-> "struct"], v |-> HostStruct(q)] : q \in EntryLists}

ToVecSer ==
    /\ op = "new"
    /\ \E c \in SerCases : ToVec(c.t, c.v)

ToStringSer ==
    /\ op = "new"
    /\ \E c \in SerCases : ToString(c.t, c.v)

NextSer == ToVecSer \/ ToStringSer

SpecSer == Init /\ [][NextSer]_vars

(* SpecValue: tests/lib.rs, circular_property: a Value is encoded and the  *)
(* text decoded as a Value.                                                *)

\* the most nodes (scalars, lists, maps) of a sampled Value
MaxNodes == 4

\* a text of ten bytes, for a length of two digits, with a two byte character
LeafText == [i \in 1..8 |-> 97] \o <<233>>

ValueLeaves ==
    <<HostInt(0), HostInt(10), HostStr(<<>>), HostStr(LeafText)>>

ValueKeys == <<HostStr(<<97>>), HostStr(<<98>>)>>

\* The Values by their number of nodes, listed without repetition.  A table
\* T of n + 1 rows has in row T[i + 1], i in 0..n,
\*   v: the Values of exactly i nodes,
\*   l: the lists whose elements have i nodes together,
\*   e: the entry lists, keys distinct, whose values have i nodes together
\*      (in every order: the order the map's iterator yields them).

\* every <<a, b>>, a of A and b of B
Pairs(A, B) ==
    [i \in 1..(Len(A) * Len(B)) |->
        <<A[((i - 1) \div Len(B)) + 1], B[((i - 1) % Len(B)) + 1]>>]

\* every list with a head and a tail that P pairs
Cons(P) == [i \in 1..Len(P) |-> <<P[i][1]>> \o P[i][2]]

\* the Values of n nodes, from the table of n rows
NewValues(T, n) ==
    (IF n = 1 THEN ValueLeaves ELSE <<>>)
        \o [i \in 1..Len(T[n].l) |-> HostSeq(T[n].l[i])]
        \o [i \in 1..Len(T[n].e) |-> HostEntries(T[n].e[i])]

\* the lists of n nodes whose first element has at most i, from the table of
\* n rows and the Values vn of n nodes
RECURSIVE NewLists(_, _, _, _)
NewLists(T, n, vn, i) ==
    IF i = 0 THEN <<>>
    ELSE Cons(Pairs(IF i = n THEN vn ELSE T[i + 1].v, T[n - i + 1].l))
            \o NewLists(T, n, vn, i - 1)

\* the same for entry lists, whatever their keys
RECURSIVE NewEntries(_, _, _, _)
NewEntries(T, n, vn, i) ==
    IF i = 0 THEN <<>>
    ELSE Cons(Pairs(Pairs(ValueKeys, IF i = n THEN vn ELSE T[i + 1].v),
                    T[n - i + 1].e))
            \o NewEntries(T, n, vn, i - 1)

NewRow(T, n, vn) ==
    [v |-> vn,
     l |-> NewLists(T, n, vn, n),
     e |-> SelectSeq(NewEntries(T, n, vn, n), Injective)]

AddRow(T, n) == Append(T, NewRow(T, n, NewValues(T, n)))

RECURSIVE ValueTable(_)
ValueTable(n) ==
    IF n = 0 THEN << [v |-> <<>>, l |-> << <<>> >>, e |-> << <<>> >>] >>
    ELSE AddRow(ValueTable(n - 1), n)

\* the Values of the first i rows
RECURSIVE AllValues(_, _)
AllValues(T, i) == IF i = 0 THEN <<>> ELSE AllValues(T, i - 1) \o T[i].v

Range(q) == {q[i] : i \in 1..Len(q)}

\* the Values of at most n nodes
ValuesUpTo(n) == Range(AllValues(ValueTable(n), n + 1))

ValueCases == ValuesUpTo(MaxNodes)

ToStringValue ==
    /\ op = "new"
    /\ \E v \in ValueCases : ToString(VALUE, v)

NextValue == ToStringValue \/ FromStr

SpecValue == Init /\ [][NextValue]_vars

(* SpecTrail: a value is encoded, bytes are appended to the text and the   *)
(* whole is decoded as the type of the value.                              *)

\* the most bytes appended
MaxSuffix == 2

SuffixBytes == {END_TOKEN, INTEGER_START, B_ZERO, BYTES_DELIMITER, 120}

Suffixes == StringsUpTo(SuffixBytes, MaxSuffix) \ {<<>>}

TrailCases ==
    {c \in IntCases :
        /\ Fits(c.v.n, c.t)
        /\ \/ c.v.n \in {0 - 1, 0, 10}
           \/ Exact(c.t) /\ c.v.n \in {MinOf(c.t), MaxOf(c.t)}}
        \cup {[t |-> STR, v |-> HostStr(x)] : x \in Texts}
        \cup {[t |-> VALUE, v |-> v] : v \in ValuesUpTo(MaxNodes - 1)}

ToStringTrail ==
    /\ op = "new"
    /\ \E c \in TrailCases : ToString(c.t, c.v)

FromStrTrailing ==
    /\ op = "to_string"
    /\ \E x \in Suffixes : FromStrOfOutput(x)

NextTrail == ToStringTrail \/ FromStrTrailing

SpecTrail == Init /\ [][NextTrail]_vars

(* SpecStr: raw bytes are decoded as a text and as a byte slice.            *)

\* the longest raw input made of StrBytes
MaxRaw == 4

\* `0`, `1`, `2`, `:`, `a` and a byte that is no UTF-8
StrBytes == {B_ZERO, B_ONE, 50, BYTES_DELIMITER, 97, 240}

\* tests/de.rs, de_bytes: 6:He?llo, the ? a byte 0xf0
HelloBytes == <<54, BYTES_DELIMITER, 72, 101, 240, 108, 108, 111>>

\* every input of at most MaxRaw bytes; the input of de_bytes; a character of
\* two bytes, alone and cut short; lengths of two digits, met and not met
RawStrInputs ==
    StringsUpTo(StrBytes, MaxRaw)
        \cup {HelloBytes,
              <<50, BYTES_DELIMITER, 195, 169>>,
              <<50, BYTES_DELIMITER, 195, 97>>,
              <<B_ONE, BYTES_DELIMITER, 195, 169>>,
              <<B_ONE, B_ZERO, BYTES_DELIMITER>> \o LongText,
              <<B_ONE, B_ZERO, BYTES_DELIMITER>> \o LongText \o <<97>>,
              <<B_ONE, B_ONE, BYTES_DELIMITER>> \o LongText}

RawStrCases == {[t |-> t, bytes |-> b] : t \in {STR, BYTES}, b \in RawStrInputs}

FromSliceStr ==
    /\ op = "new"
    /\ \E c \in RawStrCases : FromSlice(c.t, c.bytes)

DeserializeStr ==
    /\ op = "new"
    /\ \E c \in RawStrCases : DeserializeOn(c.t, c.bytes)

NextStr == FromSliceStr \/ DeserializeStr

SpecStr == Init /\ [][NextStr]_vars

(* SpecShape: raw bytes are decoded as every kind of target.               *)

\* the longest raw input made of ShapeBytes
MaxShape == 3

\* the start of each form, `e`, a digit, `:`, `-` and `x`, no part of any
ShapeBytes ==
    {INTEGER_START, LIST_START, MAP_START, END_TOKEN, B_ONE, BYTES_DELIMITER,
     B_MINUS, 120}

\* struct Point { a: u8, b: u8 }
Point == StructOf(<< <<(<<97>>), U8>>, <<(<<98>>), U8>> >>)

ShapeTypes ==
    IntTypes \cup {STR, BYTES, VecOf(U8), VecOf(STR), MapOf(STR, U8), Point}

\* every input of at most MaxShape bytes, and tests/de.rs, de_strings: a
\* well-formed integer, text, list and dictionary
ShapeInputs ==
    StringsUpTo(ShapeBytes, MaxShape)
        \cup {<<INTEGER_START, B_ONE, 50, 51, END_TOKEN>>,
              <<51, BYTES_DELIMITER, 107, 101, 121>>,
              <<LIST_START, 50, BYTES_DELIMITER, 97, 98, END_TOKEN>>,
              <<MAP_START, B_ONE, BYTES_DELIMITER, 97, END_TOKEN>>,
              <<MAP_START, B_ONE, BYTES_DELIMITER, 97, INTEGER_START, B_ONE,
                END_TOKEN, END_TOKEN>>}

ShapeCases == {[t |-> t, bytes |-> b] : t \in ShapeTypes, b \in ShapeInputs}

FromSliceShape ==
    /\ op = "new"
    /\ \E c \in ShapeCases : FromSlice(c.t, c.bytes)

NextShape == FromSliceShape

SpecShape == Init /\ [][NextShape]_vars

(* SpecBool: a bool is encoded and the text decoded as a bool; raw bytes   *)
(* are decoded as a bool.                                                  *)

BoolCases == {HostBool(b) : b \in BOOLEAN}

\* the inputs of SpecShape, and true, false, 1 and 0 as texts and integers
BoolInputs ==
    ShapeInputs
        \cup {<<52, BYTES_DELIMITER>> \o TrueText,
              <<53, BYTES_DELIMITER>> \o FalseText,
              <<B_ONE, BYTES_DELIMITER, B_ONE>>,
              <<B_ONE, BYTES_DELIMITER, B_ZERO>>,
              <<INTEGER_START, B_ZERO, END_TOKEN>>}

ToStringBool ==
    /\ op = "new"
    /\ \E v \in BoolCases : ToString(BOOL, v)

FromSliceBool ==
    /\ op = "new"
    /\ \E b \in BoolInputs : FromSlice(BOOL, b)

NextBool == ToStringBool \/ FromStr \/ FromSliceBool

SpecBool == Init /\ [][NextBool]_vars

(* SpecDict: a map or a struct is encoded with its entries in every order  *)
(* (the encoder keeps the order it is handed) and the text is decoded as   *)
(* the same type.                                                          *)

\* the fields of a Point, a and b, in both orders
PointFields ==
    {q \in EntryLists : {q[i][1] : i \in 1..Len(q)} = {HostStr(<<97>>), HostStr(<<98>>)}}

DictCases ==
    {[t |-> MapOf(STR, U8), v |-> HostEntries(q)] : q \in EntryLists}
        \cup {[t |-> Point, v |-> HostStruct(q)] : q \in PointFields}

ToStringDict ==
    /\ op = "new"
    /\ \E c \in DictCases : ToString(c.t, c.v)

NextDict == ToStringDict \/ FromStr

SpecDict == Init /\ [][NextDict]_vars

(* SpecLegacy: decoder::decode is called on a text.                        *)

\* the longest text made of LegacyBytes
MaxLegacy == 4

\* the start of each form, `e`, `0`, `3`, `:` and `-`
LegacyBytes ==
    {INTEGER_START, LIST_START, MAP_START, END_TOKEN, B_ZERO, 51, BYTES_DELIMITER,
     B_MINUS}

\* decoder.rs, mod test: complete values of each form
LegacyValues ==
    {<<INTEGER_START, 51, 50, END_TOKEN>>,
     <<INTEGER_START, B_MINUS, 51, END_TOKEN>>,
     <<51, BYTES_DELIMITER, INTEGER_START, 51, END_TOKEN>>,
     <<LIST_START, INTEGER_START, B_ZERO, END_TOKEN, END_TOKEN>>,
     <<LIST_START, LIST_START, B_ZERO, BYTES_DELIMITER, END_TOKEN, END_TOKEN>>,
     <<MAP_START, B_ONE, BYTES_DELIMITER, END_TOKEN, INTEGER_START, 51, END_TOKEN,
       END_TOKEN>>,
     <<MAP_START, B_ONE, BYTES_DELIMITER, 97, LIST_START, END_TOKEN, B_ONE,
       BYTES_DELIMITER, 97, B_ZERO, BYTES_DELIMITER, END_TOKEN>>}

\* decode_first_type_infers: i32eli0ee
FirstTypeInfers ==
    <<INTEGER_START, 51, 50, END_TOKEN, LIST_START, INTEGER_START, B_ZERO,
      END_TOKEN, END_TOKEN>>

\* every text of at most MaxLegacy bytes; each complete value, alone and
\* with bytes behind it
LegacyTexts ==
    StringsUpTo(LegacyBytes, MaxLegacy)
        \cup {v \o x : v \in LegacyValues, x \in Suffixes \cup {<<>>}}
        \cup {FirstTypeInfers}

DecodeLegacy ==
    /\ op = "new"
    /\ \E text \in LegacyTexts : Decode(text)

NextLegacy == DecodeLegacy

SpecLegacy == Init /\ [][NextLegacy]_vars

(* SpecNested: inputs that open lists and dictionaries and then hold a     *)
(* value that does not decode are decoded, by from_slice and by            *)
(* decoder::decode.                                                        *)

\* the most containers around the value that fails
MaxDepth == 2

\* Vec<Vec<..<e>..>>, n deep, and the n bytes `l` that open it
RECURSIVE NestType(_, _)
NestType(n, e) == IF n = 0 THEN e ELSE VecOf(NestType(n - 1, e))

Opening(n) == [i \in 1..n |-> LIST_START]

\* tests/de.rs: inputs that fail for a target, with the error of each
Bad(bytes, err) == [bytes |-> bytes, err |-> err]

BadLeaves(e) ==
    CASE e = U8 ->
            {Bad(<<INTEGER_START, B_MINUS, B_ONE, END_TOKEN>>, "ExpectedUnsignedInteger"),
             Bad(<<INTEGER_START, 50, 53, 54, END_TOKEN>>, "IntegerOverflow"),
             Bad(<<INTEGER_START, B_ZERO, B_ONE, END_TOKEN>>, "ExpectedUnsignedInteger"),
             Bad(<<B_ONE, BYTES_DELIMITER, 97>>, "ExpectedUnsignedInteger")}
      [] e = I8 ->
            {Bad(<<INTEGER_START, B_ONE, 50, 56, END_TOKEN>>, "IntegerOverflow"),
             Bad(<<INTEGER_START, B_MINUS, B_ZERO, END_TOKEN>>, "ExpectedInteger"),
             Bad(<<LIST_START, END_TOKEN>>, "ExpectedInteger")}
      [] e = STR ->
            {Bad(<<INTEGER_START, B_ONE, END_TOKEN>>, "ExpectedStringIntegerLength"),
             Bad(<<B_ONE, BYTES_DELIMITER, 240>>, "InvalidUnicodeCodePoint"),
             Bad(<<B_ZERO, B_ONE, BYTES_DELIMITER, 97>>, "ExpectedStringIntegerLength"),
             Bad(<<B_NINE, BYTES_DELIMITER, 97, 98>>, "EOF")}
      [] e = VALUE ->
            {Bad(<<120>>, "UnknownType"),
             Bad(<<INTEGER_START, 120, END_TOKEN>>, "ExpectedUnsignedInteger"),
             Bad(<<INTEGER_START, B_MINUS, B_ZERO, END_TOKEN>>, "ExpectedInteger"),
             Bad(<<B_ONE, BYTES_DELIMITER, 240>>, "InvalidUnicodeCodePoint"),
             Bad(<<B_NINE, BYTES_DELIMITER, 97, 98>>, "EOF")}

\* a value that decodes, to stand before the one that fails
GoodLeaf(e) ==
    CASE e = U8 -> <<INTEGER_START, B_ONE, END_TOKEN>>
      [] e = I8 -> <<INTEGER_START, B_MINUS, B_ONE, END_TOKEN>>
      [] e = STR -> <<B_ONE, BYTES_DELIMITER, 98>>
      [] e = VALUE -> <<LIST_START, END_TOKEN>>

\* the key a, as it stands in a dictionary
KeyA == <<B_ONE, BYTES_DELIMITER, 97>>

\* the containers around a value of type e, n deep, and the bytes that stand
\* before that value: lists in lists, with and without an element before it,
\* and a dictionary whose value for a is such a list
Frames(e, n) ==
    {[t |-> NestType(n, e), pre |-> Opening(n)],
     [t |-> NestType(n, e), pre |-> Opening(n) \o GoodLeaf(e)],
     [t |-> MapOf(STR, NestType(n - 1, e)),
      pre |-> <<MAP_START>> \o KeyA \o Opening(n - 1)]}

\* the same for the untagged Value, which is its own container type
ValueFrames(n) == {[t |-> VALUE, pre |-> f.pre] : f \in Frames(VALUE, n)}

FramesUpTo(e) ==
    UNION {Frames(e, n) \cup (IF e = VALUE THEN ValueFrames(n) ELSE {}) :
              n \in 1..MaxDepth}

\* what stands behind the value that fails
Closings == {<<>>, <<END_TOKEN>>, <<END_TOKEN, END_TOKEN>>, <<END_TOKEN, 120>>}

CasesFor(e) ==
    {[t |-> f.t, bytes |-> f.pre \o b.bytes \o x, err |-> b.err] :
        f \in FramesUpTo(e), b \in BadLeaves(e), x \in Closings}

NestedCases == UNION {CasesFor(e) : e \in {U8, I8, STR, VALUE}}

\* decoder.rs, mod test: texts that fail, with the error of each
LegacyBad ==
    {Bad(<<INTEGER_START, B_MINUS, B_ZERO, END_TOKEN>>, "DataError"),
     Bad(<<INTEGER_START, B_ZERO, 51, END_TOKEN>>, "DataError"),
     Bad(<<INTEGER_START, 120, END_TOKEN>>, "ParseError"),
     Bad(<<51, 120>>, "ParseError"),
     Bad(<<B_NINE, BYTES_DELIMITER, 97, 98>>, "EOF"),
     Bad(<<MAP_START, INTEGER_START, 51, END_TOKEN, END_TOKEN>>, "NonStringKey"),
     Bad(<<120>>, "ParseError")}

LegacyFrames(n) ==
    {Opening(n), Opening(n) \o <<INTEGER_START, B_ONE, END_TOKEN>>,
     <<MAP_START>> \o KeyA \o Opening(n - 1)}

LegacyNestedCases ==
    {[bytes |-> f \o b.bytes \o x, err |-> b.err] :
        f \in UNION {LegacyFrames(n) : n \in 1..MaxDepth}, b \in LegacyBad,
        x \in Closings}

FromSliceNested ==
    /\ op = "new"
    /\ \E c \in NestedCases : FromSlice(c.t, c.bytes)

DecodeNested ==
    /\ op = "new"
    /\ \E c \in LegacyNestedCases : Decode(c.bytes)

NextNested == FromSliceNested \/ DecodeNested

SpecNested == Init /\ [][NextNested]_vars

(* SpecRead: a SliceRead is made over a slice and the methods of the Read  *)
(* trait are called on it, with every argument a usize can hold.           *)

\* the longest slice read
MaxSlice == 3

Slices == {b \in StringsUpTo({97, 240}, MaxSlice) : Len(b) <= IsizeMax}

Builds == {Debug, Release}

NewRead == \E bytes \in Slices, build \in Builds : New(bytes, build)

PeekByteNthAny == \E n \in 0..UsizeMax : PeekByteNth(n)

NextBytesAny == \E end \in 0..UsizeMax : NextBytes(end)

NextRead == NewRead \/ PeekByte \/ PeekByteNthAny \/ NextByte \/ NextBytesAny

SpecRead == Init /\ [][NextRead]_vars

(* SpecWord: byte strings of every declared length that a usize can hold,  *)
(* and of the first two it cannot, are decoded as a text and as a byte     *)
(* slice.                                                                  *)

WordInputs ==
    {b \in {to_string_integer(l) \o <<BYTES_DELIMITER>> \o x :
                l \in 0..(UsizeMax + 2), x \in Slices} : Len(b) <= IsizeMax}

FromSliceWord ==
    /\ op = "new"
    /\ \E t \in {STR, BYTES}, b \in WordInputs, build \in Builds :
            FromSliceUsize(t, b, build)

NextWord == FromSliceWord

SpecWord == Init /\ [][NextWord]_vars

(* SpecLen: raw bytes with every shape of length prefix are decoded as a   *)
(* text and as a byte slice, the length a usize.                           *)

\* the longest raw input made of LenBytes
MaxLen == 4

\* `0`, `1`, `9` (19 and 99 are past a usize of WordBits bits), `:` and `a`
LenBytes == {B_ZERO, B_ONE, B_NINE, BYTES_DELIMITER, 97}

LenInputs == {b \in StringsUpTo(LenBytes, MaxLen) : Len(b) <= IsizeMax}

FromSliceLen ==
    /\ op = "new"
    /\ \E t \in {STR, BYTES}, b \in LenInputs, build \in Builds :
            FromSliceUsize(t, b, build)

NextLen == FromSliceLen

SpecLen == Init /\ [][NextLen]_vars

(* SpecAny: raw bytes are decoded without a host type, through             *)
(* deserialize_any, the value taken off the front of the input.            *)

\* the longest raw input made of ShapeBytes
MaxAny == 4

AnyInputs == StringsUpTo(ShapeBytes, MaxAny) \cup ShapeInputs

DeserializeAny ==
    /\ op = "new"
    /\ \E b \in AnyInputs : DeserializeOn(CONTENT, b)

NextAny == DeserializeAny

SpecAny == Init /\ [][NextAny]_vars

(* SpecKey: a dictionary with complete entries, and then any bytes where   *)
(* its next key would stand, is decoded as a map, as a struct and without  *)
(* a host type.                                                            *)

\* the most bytes behind the complete entries
MaxTail == 2

\* the key n as it stands in a dictionary
KeyText(n) == to_string_integer(Len(as_bytes(n))) \o <<BYTES_DELIMITER>> \o as_bytes(n)

\* the entries q as they stand in a dictionary, behind its `d`
RECURSIVE EntriesBytes(_)
EntriesBytes(q) ==
    IF q = <<>> THEN <<>>
    ELSE KeyText(q[1][1].s) \o <<INTEGER_START>> \o to_string_integer(q[1][2].n)
            \o <<END_TOKEN>> \o EntriesBytes(Tail(q))

\* what stands behind the entries: any bytes, and a key with `e` for a value
KeyTails ==
    StringsUpTo(ShapeBytes, MaxTail)
        \cup {KeyText(n) \o <<END_TOKEN>> : n \in KeyNames}

KeyTypes == {MapOf(STR, U8), Point, CONTENT}

\* the entries before that place: every list of entries a and b, and one
\* whose first key, ab, is no field of a Point
KeyLists ==
    {q \in EntryLists : \A i \in 1..Len(q) : q[i][1].s \in {<<97>>, <<98>>}}
        \cup {<< <<HostStr(<<97, 98>>), HostInt(1)>>, <<HostStr(<<97>>), HostInt(2)>>,
                 <<HostStr(<<98>>), HostInt(1)>> >>}

KeyCases ==
    {[t |-> t, bytes |-> <<MAP_START>> \o EntriesBytes(q) \o x] :
        t \in KeyTypes, q \in KeyLists, x \in KeyTails}

DeserializeKey ==
    /\ op = "new"
    /\ \E c \in KeyCases : DeserializeOn(c.t, c.bytes)

NextKey == DeserializeKey

SpecKey == Init /\ [][NextKey]_vars

(* SpecList: a list of complete integers, and then any bytes where its     *)
(* next element would stand, is decoded as a Vec, as a tuple of two and    *)
(* without a host type.                                                    *)

\* the most elements of a list
MaxItems == 3

\* the entries of such a list and the bytes behind them
ItemLists == StringsUpTo({HostInt(1), HostInt(20)}, MaxItems)

ListTails == StringsUpTo({INTEGER_START, B_ONE, END_TOKEN, LIST_START, 120}, MaxTail)

\* (u8, u8)
Pair == TupleOf(<<U8, U8>>)

ListTypes == {VecOf(U8), VecOf(I16), Pair, CONTENT}

ListCases ==
    {[t |-> t, bytes |-> serialize_elements(<<LIST_START>>, q) \o x] :
        t \in ListTypes, q \in ItemLists, x \in ListTails}

DeserializeList ==
    /\ op = "new"
    /\ \E c \in ListCases : DeserializeOn(c.t, c.bytes)

NextList == DeserializeList

SpecList == Init /\ [][NextList]_vars

(* SpecCursor: raw bytes are decoded as an integer type, the value taken   *)
(* off the front of the input.                                             *)

DeserializeInt ==
    /\ op = "new"
    /\ \E c \in RawIntCases : DeserializeOn(c.t, c.bytes)

NextCursor == DeserializeInt

SpecCursor == Init /\ [][NextCursor]_vars


(* SpecLoop: the loops of the decoder, one iteration at a step.  `op` is   *)
(* the loop that runs, `data` the outcome of its last iteration (its       *)
(* locals, and whether it goes on), `read` the cursor, `ty` the type the   *)
(* loop parses or visits and `value` the build.  The length loop runs on a *)
(* usize of WordBits bits and returns into parse_bytes.                    *)

\* the longest run of bytes a digit-scanning loop is started on
MaxScan == 4

ScanLoops == {"parse_signed", "parse_unsigned", "parse_string_length"}
VisitLoops == {"visit_seq", "visit_map"}

\* one turn of the `while let Some(..) = seq.next_element()?` of a visitor
visit_seq_iter(st, seed) ==
    LET e == next_element_seed(st.read, seed) IN
    IF ~e.ok THEN Return(st, e)
    ELSE IF e.val.some
         THEN Continue([read |-> e.read, acc |-> Append(st.acc, e.val.v)])
         ELSE Return(st, Ok(HostSeq(st.acc), e.read))

\* one turn of the `while let Some((k, v)) = map.next_entry()?` of a visitor
visit_map_iter(st, t) ==
    LET key == next_key_seed(st.read, t.key) IN
    IF ~key.ok THEN Return(st, key)
    ELSE IF ~key.val.some
         THEN Return(st, Ok(IF t.key = CONTENT THEN HostEntries(st.acc)
                            ELSE HashMapOf(st.acc), key.read))
         ELSE LET v == next_value_seed(key.read, t.val) IN
              IF ~v.ok THEN Return(st, v)
              ELSE Continue([read |-> v.read,
                             acc |-> Append(st.acc, <<key.val.v, v.val>>)])

LoopIter(name, st, t) ==
    CASE name = "parse_signed" -> parse_signed_iter(st, t)
      [] name = "parse_unsigned" -> parse_unsigned_iter(st, t)
      [] name = "parse_string_length" -> parse_string_length_iter(st, t)
      [] name = "visit_seq" -> visit_seq_iter(st, t.elem)
      [] name = "visit_map" -> visit_map_iter(st, t)

\* what the loop's function hands back once the loop is left
LoopValue(name, it) ==
    IF it.kind = "return" THEN it.res
    ELSE IF name = "parse_signed" THEN parse_signed_loop(it, NoType)
         ELSE parse_unsigned_loop(it, NoType)

\* the length goes back into parse_bytes, which takes the bytes
LoopResult(name, it, build) ==
    IF name = "parse_string_length"
    THEN parse_bytes_usize(LoopValue(name, it), build)
    ELSE LoopValue(name, it)

\* where the cursor stands after an iteration
CursorOf(it) == IF it.kind = "return" THEN it.res.read ELSE it.st.read

\* the loop `name` is entered on the cursor r
EnterLoop(name, t, r, build) ==
    /\ op' = name
    /\ ty' = t
    /\ value' = build
    /\ read' = r
    /\ data' = Continue(IF name \in ScanLoops THEN Locals(r)
                        ELSE [read |-> r, acc |-> <<>>])
    /\ UNCHANGED result

\* the body of the loop runs once
Iterate ==
    /\ op \in ScanLoops \cup VisitLoops
    /\ data.kind = "continue"
    /\ data' = LoopIter(op, data.st, ty)
    /\ read' = CursorOf(data')
    /\ UNCHANGED <<op, ty, value, result>>

\* the loop is left and its function returns
LeaveLoop ==
    /\ op \in ScanLoops \cup VisitLoops
    /\ data.kind \in {"break", "return"}
    /\ Decoded(LoopResult(op, data, value))
    /\ data' = [data EXCEPT !.kind = "returned"]
    /\ UNCHANGED <<op, ty, value>>

\* behind the first byte of an input
Behind(bytes) == [slice |-> bytes, index |-> 1]

ScanBodies == StringsUpTo(BodyBytes, MaxScan)

\* length prefixes: the bytes of SpecLen, and the two longest lengths a
\* usize holds with nothing and with one byte behind them
ScanLengths ==
    StringsUpTo(LenBytes, MaxScan)
        \cup {to_string_integer(l) \o <<BYTES_DELIMITER>> \o x :
                l \in {UsizeMax - 1, UsizeMax}, x \in {<<>>, <<97>>}}

EnterScan ==
    /\ op = "new"
    /\ \E build \in Builds :
        \/ \E b \in ScanBodies :
             \/ EnterLoop("parse_signed", I8, Behind(<<INTEGER_START>> \o b), build)
             \/ EnterLoop("parse_unsigned", U8, Behind(<<INTEGER_START>> \o b), build)
        \/ \E b \in ScanLengths :
             EnterLoop("parse_string_length", USIZE, SliceRead(b), build)

VisitSeqCases ==
    {c \in ListCases : c.t \in {VecOf(U8), VecOf(I16)}}
        \cup {[t |-> VecOf(CONTENT), bytes |-> c.bytes] : c \in ListCases}

VisitMapCases ==
    {c \in KeyCases : c.t = MapOf(STR, U8)}
        \cup {[t |-> MapOf(CONTENT, CONTENT), bytes |-> c.bytes] : c \in KeyCases}

EnterVisit ==
    /\ op = "new"
    /\ \E build \in Builds :
        \/ \E c \in VisitSeqCases :
             EnterLoop("visit_seq", c.t, Behind(c.bytes), build)
        \/ \E c \in VisitMapCases :
             EnterLoop("visit_map", c.t, Behind(c.bytes), build)

NextLoop == EnterScan \/ EnterVisit \/ Iterate \/ LeaveLoop

SpecLoop == Init /\ [][NextLoop]_vars


(* SpecOpt: a value that holds optional values is encoded with to_vec and  *)
(* the output decoded without a host type.                                 *)

\* the most elements of a list of optional values
MaxOpt == 2

OptLeaves ==
    {HostInt(1), HostStr(<<97>>), HostNone, HostSome(HostInt(1)),
     HostSome(HostStr(<<97>>))}

OptLists == {HostSeq(q) : q \in StringsUpTo(OptLeaves, MaxOpt)}

\* the fields a and b, in this order, the first of any of the values above
\* and the second a leaf; and each alone
OptEntries ==
    {<< <<HostStr(<<97>>), v>>, <<HostStr(<<98>>), w>> >> :
        v \in OptLeaves \cup OptLists, w \in OptLeaves}
      \cup {<< <<HostStr(n), v>> >> : n \in {<<97>>, <<98>>}, v \in OptLeaves \cup OptLists}
      \cup {<<>>}

OptCases ==
    {[t |-> CONTENT, v |-> v] : v \in OptLeaves \cup OptLists}
        \cup {[t |-> MapOf(STR, CONTENT), v |-> HostEntries(q)] : q \in OptEntries}
        \cup {[t |-> [k |-> "struct"], v |-> HostStruct(q)] : q \in OptEntries}
        \cup {[t |-> VecOf(CONTENT), v |-> HostSeq(<<HostStruct(q)>>)] : q \in OptEntries}

ToVecOpt ==
    /\ op = "new"
    /\ \E c \in OptCases : ToVec(c.t, c.v)

\* from_slice on the bytes to_vec returned, without a host type
FromSliceOfOutput ==
    /\ op = "to_vec"
    /\ Decoded(from_slice(data, CONTENT))
    /\ op' = "from_slice"
    /\ UNCHANGED <<ty, value, data>>

NextOpt == ToVecOpt \/ FromSliceOfOutput

SpecOpt == Init /\ [][NextOpt]_vars

---------------------------------------------------------------------------
(* Reading a decimal numeral, for stating the claims: independent of the   *)
(* parsers and of to_string above.                                         *)

RECURSIVE DecValue(_)
DecValue(d) ==
    IF d = <<>> THEN 0
    ELSE DecValue(SubSeq(d, 1, Len(d) - 1)) * 10 + (d[Len(d)] - B_ZERO)

IsDigits(d) == \A i \in 1..Len(d) : IsDigit(d[i])

Signed(b) == b # <<>> /\ b[1] = B_MINUS
Digits(b) == IF Signed(b) THEN Tail(b) ELSE b

\* 0 | -? [1-9][0-9]*
CanonicalNumeral(b) ==
    /\ Digits(b) # <<>>
    /\ IsDigits(Digits(b))
    /\ Digits(b)[1] = B_ZERO => (Len(Digits(b)) = 1 /\ ~Signed(b))

NumeralValue(b) == IF Signed(b) THEN 0 - DecValue(Digits(b)) ELSE DecValue(Digits(b))

\* the input is `i`, a body without `e`, `e`
IsIntegerForm(s) ==
    /\ Len(s) >= 2
    /\ s[1] = INTEGER_START
    /\ s[Len(s)] = END_TOKEN
    /\ \A i \in 2..(Len(s) - 1) : s[i] # END_TOKEN

Body(s) == SubSeq(s, 2, Len(s) - 1)

ExpectedError(t) == IF t.signed THEN "ExpectedInteger" ELSE "ExpectedUnsignedInteger"

Failed(e) == ~result.ok /\ result.err = e
Returned(v) == result.ok /\ result.val = v

---------------------------------------------------------------------------
(* Claims *)

\* C2: integer round trip: for every signed and unsigned width and every
\* value v of the type, the minimum of a signed type included, decoding the
\* encoder's output for v as the same type returns v.
C2_IntegerRoundTrip ==
    (op = "from_str" /\ ty.k = "int") => Returned(value)

\* C5: an integer input of the form i-0e, i0 and more digits and e, ie, or
\* with a non-digit between i and e that is no single leading `-`, fails with
\* ExpectedInteger (signed target) or ExpectedUnsignedInteger (unsigned
\* target); i0e is accepted as 0.
NonCanonicalBody(b) ==
    \/ b = <<B_MINUS, B_ZERO>>
    \/ Len(b) >= 2 /\ b[1] = B_ZERO /\ IsDigits(b)
    \/ b = <<>>
    \/ \E i \in 1..Len(b) : ~IsDigit(b[i]) /\ ~(i = 1 /\ b[i] = B_MINUS)

C5_NonCanonicalRejected ==
    (op = "from_slice" /\ ty.k = "int" /\ IsIntegerForm(read.slice)) =>
        /\ NonCanonicalBody(Body(read.slice)) => Failed(ExpectedError(ty))
        /\ Body(read.slice) = <<B_ZERO>> => Returned(HostInt(0))

\* C6: a canonical integer input whose value is outside the range of the
\* target type fails with IntegerOverflow, no wrapped or truncated value is
\* ever returned, and every value inside the range is accepted.  (A negative
\* numeral for an unsigned target is the case of C7 and is left out here.)
C6_OverflowSafety ==
    (/\ op = "from_slice" /\ ty.k = "int" /\ IsIntegerForm(read.slice)
     /\ CanonicalNumeral(Body(read.slice))
     /\ ty.signed \/ ~Signed(Body(read.slice))) =>
        LET n == NumeralValue(Body(read.slice)) IN
        /\ ~Fits(n, ty) => Failed("IntegerOverflow")
        /\ result.ok => result.val = HostInt(n)
        /\ Fits(n, ty) => Returned(HostInt(n))

\* C7: for an unsigned target an input that starts with i- fails with
\* ExpectedUnsignedInteger whatever follows the `-`, and does so before the
\* numeric parser scans a byte: the cursor stays behind the `i`.
C7_NegativeInUnsignedSlot ==
    (/\ op = "from_slice" /\ ty.k = "int" /\ ~ty.signed
     /\ Len(read.slice) >= 2
     /\ read.slice[1] = INTEGER_START /\ read.slice[2] = B_MINUS) =>
        Failed("ExpectedUnsignedInteger") /\ read.index = 1

\* C7 witness: i-888e asked of a u8, whose digits alone would overflow
C7_Witness ==
    /\ op = "from_slice" /\ ty = U8
    /\ read.slice = <<INTEGER_START, B_MINUS, 56, 56, 56, END_TOKEN>>
    /\ Failed("ExpectedUnsignedInteger")

\* C10: the encoder's output for an integer v is `i`, the shortest decimal
\* numeral of v (a `-` only when v is negative, no leading zero), `e`.
C10_IntegerEncoding ==
    (op = "to_string" /\ value.k = "Int") =>
        /\ result.ok
        /\ IsIntegerForm(data)
        /\ CanonicalNumeral(Body(data))
        /\ NumeralValue(Body(data)) = value.n

\* C10 witness: the minimum of i8, a negative value of three digits
C10_Witness ==
    /\ op = "to_string" /\ ty = I8 /\ value = HostInt(0 - 128)
    /\ data = <<INTEGER_START, B_MINUS, 49, 50, 56, END_TOKEN>>

\* C4: for every map or struct given to the encoder, in whatever order its
\* entries are supplied, the keys of the emitted dictionary are in strictly
\* ascending order of their raw bytes.
RECURSIVE BytesLess(_, _)
BytesLess(a, b) ==
    IF b = <<>> THEN FALSE
    ELSE IF a = <<>> THEN TRUE
    ELSE IF a[1] # b[1] THEN a[1] < b[1]
    ELSE BytesLess(Tail(a), Tail(b))

\* the keys of the dictionary that `d` holds, in the order they stand in it
EmittedKeys(d) ==
    LET c == deserialize_any(SliceRead(d)) IN
    [i \in 1..Len(c.val.entries) |-> as_bytes(c.val.entries[i][1].s)]

C4_CanonicalKeyOrder ==
    (op \in {"to_vec", "to_string"} /\ value.k \in {"Map", "Struct"}) =>
        \A i \in 1..(Len(EmittedKeys(data)) - 1) :
            BytesLess(EmittedKeys(data)[i], EmittedKeys(data)[i + 1])

\* `d` is the decimal length of `payload`, `:`, and `payload`
LengthPrefixed(d, payload) ==
    \E p \in 1..Len(d) :
        /\ d[p] = BYTES_DELIMITER
        /\ CanonicalNumeral(SubSeq(d, 1, p - 1))
        /\ ~Signed(SubSeq(d, 1, p - 1))
        /\ NumeralValue(SubSeq(d, 1, p - 1)) = Len(payload)
        /\ SubSeq(d, p + 1, Len(d)) = payload

\* C8: encoding a byte string (serialize_bytes) emits the decimal byte
\* length, `:`, then the bytes verbatim, the empty byte string included.
C8_ByteStringEncoding ==
    (op = "to_vec" /\ value.k = "Bytes") => LengthPrefixed(data, value.b)

\* C9: for every text s, to_string(s) is the decimal count of the bytes of s
\* (not of its characters), `:`, then the bytes of s unchanged.
C9_TextEncoding ==
    (op = "to_string" /\ value.k = "Str") =>
        result.ok /\ LengthPrefixed(data, as_bytes(value.s))

\* C9 witness: a text of two characters and five bytes
C9_Witness ==
    /\ op = "to_string" /\ value = HostStr(<<233, 10084>>)
    /\ data = <<53, BYTES_DELIMITER, 195, 169, 226, 157, 164>>

\* C1: from_str / from_slice succeed only with the cursor at the end of the
\* input: a complete well-formed encoding of the target type followed by
\* one or more bytes gives Err(TrailingCharacters), and no value.
C1_TrailingCharacters ==
    (op = "from_str" /\ Len(read.slice) > Len(data)) => Failed("TrailingCharacters")

\* C3: composite round trip: for every value built from unsigned integers,
\* texts, lists and maps with unique text keys, from_str(to_string(v))
\* succeeds and equals v, maps compared as unordered.
RECURSIVE Unordered(_)
Unordered(v) ==
    CASE v.k = "Seq" -> HostSeq([i \in 1..Len(v.items) |-> Unordered(v.items[i])])
      [] v.k = "Map" ->
            [k |-> "HashMap",
             m |-> {<<v.entries[i][1], Unordered(v.entries[i][2])>> :
                        i \in 1..Len(v.entries)}]
      [] OTHER -> v

C3_CompositeRoundTrip ==
    (op = "from_str" /\ ty = VALUE) => Returned(Unordered(value))

\* C3 witness: a map whose entries are handed over as b, a, holding a list
\* and a text of ten bytes
C3_Witness ==
    /\ op = "from_str" /\ ty = VALUE
    /\ value = HostEntries(<< <<HostStr(<<98>>), HostSeq(<<HostInt(10)>>)>>,
                              <<HostStr(<<97>>), HostStr(LeafText)>> >>)
    /\ result.ok

---------------------------------------------------------------------------
(* Reading a byte string, for stating the claims: the place of the first   *)
(* `:`, the length written before it and the bytes behind it.              *)

Colon(s) ==
    IF \E p \in 1..Len(s) : s[p] = BYTES_DELIMITER
    THEN CHOOSE p \in 1..Len(s) :
            s[p] = BYTES_DELIMITER /\ \A q \in 1..(p - 1) : s[q] # BYTES_DELIMITER
    ELSE 0

LengthPart(s) == SubSeq(s, 1, Colon(s) - 1)

\* the input starts with a decimal length L and `:`
HasLength(s) ==
    Colon(s) > 1 /\ CanonicalNumeral(LengthPart(s)) /\ ~Signed(LengthPart(s))

Declared(s) == DecValue(LengthPart(s))

AfterColon(s) == SubSeq(s, Colon(s) + 1, Len(s))

\* the L bytes behind the `:`
Payload(s) == SubSeq(AfterColon(s), 1, Declared(s))

\* L, `:` and exactly L bytes
WellFormedString(s) == HasLength(s) /\ Len(AfterColon(s)) = Declared(s)

\* C11: UTF-8 is checked only for text targets: a well-formed byte string
\* whose payload is no valid UTF-8 decodes to exactly its payload for a byte
\* slice target, and fails with InvalidUTF8 for a text target.
C11_Utf8OnlyForText ==
    (/\ op = "from_slice" /\ ty \in {STR, BYTES}
     /\ WellFormedString(read.slice)
     /\ ~from_utf8(Payload(read.slice)).ok) =>
        IF ty = BYTES THEN Returned(HostBytes(Payload(read.slice)))
        ELSE Failed("InvalidUTF8")

\* C12: for an input L, `:` and at least L bytes the decoder returns exactly
\* the L bytes behind the `:` and leaves the cursor right behind them (for a
\* text target: the text these bytes encode); L = 0 returns the empty string
\* and consumes the two bytes `0:` only.
C12_ByteStringDecoding ==
    (/\ op = "deserialize" /\ ty \in {STR, BYTES}
     /\ HasLength(read.slice)
     /\ Len(AfterColon(read.slice)) >= Declared(read.slice)
     /\ ty = STR => from_utf8(Payload(read.slice)).ok) =>
        /\ read.index = Colon(read.slice) + Declared(read.slice)
        /\ ty = BYTES => Returned(HostBytes(Payload(read.slice)))
        /\ ty = STR => Returned(HostStr(from_utf8(Payload(read.slice)).s))

\* C12 witness: 1:, a byte that is no UTF-8 and one more byte, as a byte
\* slice: the one byte is returned and the cursor stands before the last
C12_Witness ==
    /\ op = "deserialize" /\ ty = BYTES
    /\ read.slice = <<B_ONE, BYTES_DELIMITER, 240, 97>>
    /\ Returned(HostBytes(<<240>>))
    /\ read.index = 3

\* the first byte of each form
StartsForm(t, b) ==
    CASE t.k = "int" -> b = INTEGER_START
      [] t.k \in {"str", "bytes"} -> IsDigit(b)
      [] t.k = "vec" -> b = LIST_START
      [] t.k \in {"map", "struct"} -> b = MAP_START

\* the error of each form
FormError(t) ==
    CASE t.k = "int" -> ExpectedError(t)
      [] t.k \in {"str", "bytes"} -> "ExpectedStringIntegerLength"
      [] t.k = "vec" -> "ExpectedList"
      [] t.k \in {"map", "struct"} -> "ExpectedDictionary"

\* C13: when the first byte of the input does not start the form the target
\* demands, decoding fails with the error of that form, whatever the input
\* holds: ExpectedUnsignedInteger (unsigned), ExpectedInteger (signed),
\* ExpectedStringIntegerLength (text, bytes), ExpectedList (list),
\* ExpectedDictionary (map, struct).
C13_ShapeMismatch ==
    (/\ op = "from_slice" /\ ty \in ShapeTypes
     /\ read.slice # <<>>
     /\ ~StartsForm(ty, read.slice[1])) =>
        Failed(FormError(ty))

\* C13 witness: a well-formed dictionary asked of a list target
C13_Witness ==
    /\ op = "from_slice" /\ ty = VecOf(U8)
    /\ read.slice = <<MAP_START, B_ONE, BYTES_DELIMITER, 97, INTEGER_START, B_ONE,
                      END_TOKEN, END_TOKEN>>
    /\ Failed("ExpectedList")

\* the dictionary that `d` holds, as deserialize_any reads it: the entries
\* in the order they stand in `d`
ReadBack(d) == deserialize_any(SliceRead(d))

\* C14: encoding a struct emits `d`, then for each field, in the order the
\* fields are declared, the field name as a byte string immediately followed
\* by the encoded field value, then `e`.
C14_StructFieldOrder ==
    (op \in {"to_vec", "to_string"} /\ value.k = "Struct") =>
        /\ data[1] = MAP_START
        /\ data[Len(data)] = END_TOKEN
        /\ ReadBack(data).ok
        /\ at_end(ReadBack(data).read)
        /\ ReadBack(data).val = HostEntries(value.fields)

\* C14 witness: StringTest, whose declaration order (string, strings,
\* string_slice) is not the ascending order of the names
C14_Witness ==
    /\ op = "to_string" /\ value = StringTest
    /\ SubSeq(data, 1, 9) = <<MAP_START, 54, BYTES_DELIMITER, 115, 116, 114, 105, 110, 103>>
    /\ SubSeq(data, 10, 22) = <<B_ONE, B_ZERO, BYTES_DELIMITER>> \o LongText
    /\ SubSeq(data, 23, 31) = <<55, BYTES_DELIMITER, 115, 116, 114, 105, 110, 103, 115>>

\* 4:true and 5:false
EncodedBool(b) ==
    IF b THEN <<52, BYTES_DELIMITER>> \o TrueText
    ELSE <<53, BYTES_DELIMITER>> \o FalseText

\* C15: true encodes as 4:true and false as 5:false, and decoding either of
\* those encodings with a boolean target returns the original boolean.
C15_BooleanSymmetry ==
    /\ (op = "to_string" /\ ty = BOOL) => (result.ok /\ data = EncodedBool(value.b))
    /\ (op = "from_str" /\ ty = BOOL) => Returned(value)
    /\ \A b \in BOOLEAN :
          (op = "from_slice" /\ ty = BOOL /\ read.slice = EncodedBool(b)) =>
              Returned(HostBool(b))

\* the entries of a map or the fields of a struct
EntriesOf(v) == IF v.k = "Struct" THEN v.fields ELSE v.entries

KeyBytes(e) == as_bytes(e[1].s)

KeysAscending(q) ==
    \A i \in 1..(Len(q) - 1) : BytesLess(KeyBytes(q[i]), KeyBytes(q[i + 1]))

\* the entries q in the ascending order of their keys
RECURSIVE Ascending(_)
Ascending(q) ==
    IF q = <<>> THEN <<>>
    ELSE LET least == CHOOSE i \in 1..Len(q) :
                        \A j \in 1..Len(q) : ~BytesLess(KeyBytes(q[j]), KeyBytes(q[i]))
         IN  <<q[least]>> \o Ascending(SubSeq(q, 1, least - 1)
                                        \o SubSeq(q, least + 1, Len(q)))

\* the dictionary of the entries q, written out entry by entry
RECURSIVE EntriesText(_)
EntriesText(q) ==
    IF q = <<>> THEN <<>>
    ELSE Decimal(Len(KeyBytes(q[1]))) \o <<BYTES_DELIMITER>> \o KeyBytes(q[1])
            \o <<INTEGER_START>> \o Decimal(q[1][2].n) \o <<END_TOKEN>>
            \o EntriesText(Tail(q))

DictionaryText(q) == <<MAP_START>> \o EntriesText(q) \o <<END_TOKEN>>

\* the map or the struct that the entries make
Built(v) ==
    IF v.k = "Struct"
    THEN HostStruct(Ascending(v.fields))
    ELSE [k |-> "HashMap", m |-> {v.entries[i] : i \in 1..Len(v.entries)}]

\* C16: a well-formed dictionary whose keys are not in ascending byte order
\* decodes successfully, to the same map or struct as the same entries
\* given in ascending order.
C16_KeyOrderNotEnforced ==
    (/\ op = "from_str" /\ ty.k \in {"map", "struct"}
     /\ read.slice = DictionaryText(EntriesOf(value))
     /\ ~KeysAscending(EntriesOf(value))) =>
        /\ Returned(Built(value))
        /\ result = ResultOf(from_slice(DictionaryText(Ascending(EntriesOf(value))), ty))

\* C16 witness: the fields of a Point written as b, then a
C16_Witness ==
    /\ op = "from_str" /\ ty = Point
    /\ read.slice = <<MAP_START, B_ONE, BYTES_DELIMITER, 98, INTEGER_START, 50,
                      END_TOKEN, B_ONE, BYTES_DELIMITER, 97, INTEGER_START, B_ONE,
                      END_TOKEN, END_TOKEN>>
    /\ Returned(HostStruct(<< <<HostStr(<<97>>), HostInt(1)>>,
                              <<HostStr(<<98>>), HostInt(2)>> >>))

\* complete values of each form and what they denote
CompleteValues ==
    {[text |-> <<INTEGER_START, 51, 50, END_TOKEN>>, val |-> HostInt(32)],
     [text |-> <<INTEGER_START, 51, END_TOKEN>>, val |-> HostInt(3)],
     [text |-> <<INTEGER_START, B_ZERO, END_TOKEN>>, val |-> HostInt(0)],
     [text |-> <<INTEGER_START, B_MINUS, 51, END_TOKEN>>, val |-> HostInt(0 - 3)],
     [text |-> <<B_ZERO, BYTES_DELIMITER>>, val |-> HostBytes(<<>>)],
     [text |-> <<51, BYTES_DELIMITER, INTEGER_START, 51, END_TOKEN>>,
      val |-> HostBytes(<<INTEGER_START, 51, END_TOKEN>>)],
     [text |-> <<LIST_START, END_TOKEN>>, val |-> HostSeq(<<>>)],
     [text |-> <<LIST_START, INTEGER_START, B_ZERO, END_TOKEN, END_TOKEN>>,
      val |-> HostSeq(<<HostInt(0)>>)],
     [text |-> <<LIST_START, LIST_START, B_ZERO, BYTES_DELIMITER, END_TOKEN,
                 END_TOKEN>>,
      val |-> HostSeq(<<HostSeq(<<HostBytes(<<>>)>>)>>)],
     [text |-> <<MAP_START, END_TOKEN>>, val |-> [k |-> "BTreeMap", m |-> {}]],
     [text |-> <<MAP_START, B_ONE, BYTES_DELIMITER, END_TOKEN, INTEGER_START, 51,
                 END_TOKEN, END_TOKEN>>,
      val |-> [k |-> "BTreeMap", m |-> {<< <<END_TOKEN>>, HostInt(3)>>}]],
     [text |-> <<MAP_START, B_ONE, BYTES_DELIMITER, 97, LIST_START, END_TOKEN, B_ONE,
                 BYTES_DELIMITER, 97, B_ZERO, BYTES_DELIMITER, END_TOKEN>>,
      val |-> [k |-> "BTreeMap", m |-> {<< <<97>>, HostBytes(<<>>)>>}]]}

StartsWith(s, prefix) ==
    Len(s) >= Len(prefix) /\ SubSeq(s, 1, Len(prefix)) = prefix

\* C17: decoder::decode infers the type from the first byte and returns the
\* first complete value only: for a complete value followed by further
\* bytes it succeeds with that value and leaves the rest unread (i32eli0ee
\* decodes to Int(32)).
C17_FirstValueOnly ==
    op = "decode" =>
        \A c \in CompleteValues :
            (StartsWith(read.slice, c.text) /\ Len(read.slice) > Len(c.text)) =>
                Returned(c.val) /\ read.index = Len(c.text)

\* C17 witness: i32eli0ee
C17_Witness ==
    /\ op = "decode" /\ read.slice = FirstTypeInfers
    /\ Returned(HostInt(32))
    /\ read.index = 4

\* C18: the first error wins and propagates unchanged: when a value nested
\* at any depth inside lists or dictionaries fails with the error kind K,
\* the top-level decode returns exactly K (no container error, no
\* TrailingCharacters) and no partial value.
C18_FirstErrorPropagates ==
    /\ op = "from_slice" =>
          \A c \in NestedCases :
              (ty = c.t /\ read.slice = c.bytes) =>
                  Failed(c.err) /\ result.val = NoValue
    /\ op = "decode" =>
          \A c \in LegacyNestedCases :
              read.slice = c.bytes => Failed(c.err) /\ result.val = NoValue

\* C18 witness: ll, an element that decodes, then i256e asked of a u8, and
\* the two lists closed
C18_Witness ==
    /\ op = "from_slice" /\ ty = VecOf(VecOf(U8))
    /\ read.slice = <<LIST_START, LIST_START, INTEGER_START, B_ONE, END_TOKEN,
                      INTEGER_START, 50, 53, 54, END_TOKEN, END_TOKEN, END_TOKEN>>
    /\ Failed("IntegerOverflow")

\* C19: after any sequence of peek_byte, peek_byte_nth, next_byte and
\* next_bytes calls on a SliceRead, 0 <= index <= slice length holds, and a
\* consuming call that would move the index past the end returns Err(EOF)
\* instead of advancing.
PastEnd(r, n) == r.index + n > Len(r.slice)

C19_CursorBound ==
    [][/\ op' \in ReadOps => (0 <= read'.index /\ read'.index <= Len(read'.slice))
       /\ (op' = "next_byte" /\ PastEnd(read, 1)) =>
              (result' = ResultOf(Err("EOF", read)) /\ read' = read)
       /\ (op' = "next_bytes" /\ PastEnd(read, value'.n + 1)) =>
              (result' = ResultOf(Err("EOF", read)) /\ read' = read)]_vars

\* C20: a byte string whose declared length L is larger than the number of
\* bytes that remain behind the `:` fails with EOF for every L that fits the
\* machine word, also for L at or near the word's maximum, where the index
\* plus L - 1 leaves the word: the addition never wraps into a successful
\* or out-of-range read.
C20_ShortBufferIsEof ==
    (/\ op = "from_slice" /\ ty \in {STR, BYTES} /\ value.k = "Build"
     /\ HasLength(read.slice)
     /\ Declared(read.slice) <= UsizeMax
     /\ Declared(read.slice) > Len(AfterColon(read.slice))) =>
        Failed("EOF")

\* C21: for an integer body with a shape violation (a non-digit, or a `-`
\* behind the first position) whose digits before that violation already
\* exceed the target width, the decoder returns ExpectedInteger /
\* ExpectedUnsignedInteger, not IntegerOverflow.
ShapeViolationAt(b, i) == ~IsDigit(b[i]) /\ ~(i = 1 /\ b[i] = B_MINUS)

HasShapeViolation(b) == \E i \in 1..Len(b) : ShapeViolationAt(b, i)

FirstShapeViolation(b) ==
    CHOOSE i \in 1..Len(b) :
        ShapeViolationAt(b, i) /\ \A j \in 1..(i - 1) : ~ShapeViolationAt(b, j)

\* the numeral in front of the first shape violation
BeforeViolation(b) == SubSeq(b, 1, FirstShapeViolation(b) - 1)

C21_ShapeBeforeOverflow ==
    (/\ op = "from_slice" /\ ty.k = "int" /\ Exact(ty)
     /\ IsIntegerForm(read.slice)
     /\ HasShapeViolation(Body(read.slice))
     /\ CanonicalNumeral(BeforeViolation(Body(read.slice)))
     /\ ~Fits(NumeralValue(BeforeViolation(Body(read.slice))), ty)) =>
        Failed(ExpectedError(ty))

\* C22: a length prefix that is empty (the input starts with `:`), has a
\* leading zero with another character before the `:` (03:abc, 00:), or has
\* a non-digit before the `:`, is rejected with ExpectedStringIntegerLength;
\* the single literal 0: is accepted.
MalformedLength(p) ==
    \/ p = <<>>
    \/ Len(p) >= 2 /\ p[1] = B_ZERO
    \/ \E i \in 1..Len(p) : ~IsDigit(p[i])

C22_LengthCanonicalForm ==
    (/\ op = "from_slice" /\ ty \in {STR, BYTES} /\ value.k = "Build"
     /\ Colon(read.slice) > 0) =>
        /\ MalformedLength(LengthPart(read.slice)) =>
                Failed("ExpectedStringIntegerLength")
        /\ read.slice = <<B_ZERO, BYTES_DELIMITER>> =>
                Returned(IF ty = STR THEN HostStr(<<>>) ELSE HostBytes(<<>>))

\* C23: deserialize_any chooses the form from the leading byte: a digit is
\* decoded as a byte string, `i` followed by `-` as a signed 64 bit integer,
\* `i` followed by anything else as an unsigned 64 bit integer, `l` as a
\* list, `d` as a dictionary, and any other leading byte is UnknownType.
TypedDecode(t) == ResultOf(Deserialize(t, SliceRead(read.slice)))

LeadingByte(b) == read.slice # <<>> /\ read.slice[1] = b

FollowedBy(b) == Len(read.slice) >= 2 /\ read.slice[2] = b

C23_SelfDescribingDispatch ==
    (op = "deserialize" /\ ty = CONTENT /\ read.slice # <<>>) =>
        /\ IsDigit(read.slice[1]) => result = TypedDecode(STR)
        /\ (LeadingByte(INTEGER_START) /\ FollowedBy(B_MINUS)) =>
                /\ result = TypedDecode(I64)
                /\ result.ok => (result.val.k = "Int" /\ result.val.n < 0)
                /\ ~Failed("ExpectedUnsignedInteger")
        /\ (LeadingByte(INTEGER_START) /\ Len(read.slice) >= 2
                /\ ~FollowedBy(B_MINUS)) =>
                /\ result = TypedDecode(U64)
                /\ result.ok => (result.val.k = "Int" /\ result.val.n >= 0)
                /\ ~Failed("ExpectedInteger")
        /\ LeadingByte(LIST_START) =>
                /\ result = TypedDecode(VecOf(CONTENT))
                /\ result.ok => result.val.k = "Seq"
        /\ LeadingByte(MAP_START) =>
                /\ result = TypedDecode(MapOf(CONTENT, CONTENT))
                /\ result.ok => result.val.k = "Map"
        /\ (~IsDigit(read.slice[1])
                /\ read.slice[1] \notin {INTEGER_START, LIST_START, MAP_START}) =>
                Failed("UnknownType") /\ read.index = 0

\* C23 witness: ixe, an integer without a `-`, is refused as an unsigned one
C23_Witness ==
    /\ op = "deserialize" /\ ty = CONTENT
    /\ read.slice = <<INTEGER_START, 120, END_TOKEN>>
    /\ Failed("ExpectedUnsignedInteger")

\* C24: inside a dictionary, where a key stands, `e` closes the dictionary,
\* a digit starts a byte-string key that is followed by exactly one value,
\* and any other byte fails with ExpectedDictionaryKeyString.
KeyPrefix(q) == <<MAP_START>> \o EntriesText(q)

HasField(q, n) == \E i \in 1..Len(q) : q[i][1].s = n

FieldValue(q, n) == q[CHOOSE i \in 1..Len(q) : q[i][1].s = n][2]

\* what a target makes of the dictionary of the entries q
ClosedAs(t, q) ==
    CASE t = CONTENT -> Returned(HostEntries(q))
      [] t.k = "map" ->
            Returned([k |-> "HashMap", m |-> {q[i] : i \in 1..Len(q)}])
      [] t.k = "struct" ->
            IF \A i \in 1..Len(t.fields) : HasField(q, t.fields[i][1])
            THEN Returned(HostStruct([i \in 1..Len(t.fields) |->
                            <<HostStr(t.fields[i][1]),
                              FieldValue(q, t.fields[i][1])>>]))
            ELSE Failed("Message")

\* the byte x stands at place `at` + 1, behind the complete entries q
AtKeyPosition(q, at, x) ==
    /\ x = END_TOKEN => (ClosedAs(ty, q) /\ (result.ok => read.index = at + 1))
    /\ (x # END_TOKEN /\ ~IsDigit(x)) =>
            (Failed("ExpectedDictionaryKeyString") /\ read.index = at)
    /\ IsDigit(x) => (Failed("ExpectedDictionaryKeyString") => read.index > at)
    /\ \A n \in KeyNames :
            StartsWith(read.slice, KeyPrefix(q) \o KeyText(n) \o <<END_TOKEN>>) =>
                (~result.ok /\ read.index >= at + Len(KeyText(n)))

C24_KeysAreByteStrings ==
    (op = "deserialize" /\ ty \in KeyTypes) =>
        \A q \in KeyLists :
            (StartsWith(read.slice, KeyPrefix(q))
                /\ Len(read.slice) > Len(KeyPrefix(q))) =>
                AtKeyPosition(q, Len(KeyPrefix(q)), read.slice[Len(KeyPrefix(q)) + 1])

\* C24 witness: d1:ai1e and then an integer where the second key would stand
C24_Witness ==
    /\ op = "deserialize" /\ ty = MapOf(STR, U8)
    /\ read.slice = <<MAP_START, B_ONE, BYTES_DELIMITER, 97, INTEGER_START, B_ONE,
                      END_TOKEN, INTEGER_START, END_TOKEN>>
    /\ Failed("ExpectedDictionaryKeyString")
    /\ read.index = 7

\* the input is `d` and complete entries, and ends behind the last value
EndsUnclosed == \E q \in KeyLists : read.slice = KeyPrefix(q)

RECURSIVE ItemsText(_)
ItemsText(q) ==
    IF q = <<>> THEN <<>>
    ELSE <<INTEGER_START>> \o Decimal(q[1].n) \o <<END_TOKEN>> \o ItemsText(Tail(q))

ListPrefix(q) == <<LIST_START>> \o ItemsText(q)

\* the first bytes of an integer, cut short
CutShort(rest) ==
    \E n \in {1, 20} : \E m \in 1..(Len(Decimal(n)) + 1) :
        rest = SubSeq(<<INTEGER_START>> \o Decimal(n), 1, m)

\* the tuple type t has fewer slots than q has elements, more, as many
Surplus(t, q) == t.k = "tuple" /\ Len(q) > Len(t.elems)
Short(t, q) == t.k = "tuple" /\ Len(q) < Len(t.elems)
Filled(t, q) == t.k = "tuple" /\ Len(q) = Len(t.elems)

\* the input starts with `l` and the complete elements q, `rest` behind them:
\* the list is closed; the input ends, behind an element or inside one that
\* the visitor asks for; the visitor has stopped and no `e` follows
BehindElements(q, at, rest) ==
    /\ (rest # <<>> /\ rest[1] = END_TOKEN /\ ~Surplus(ty, q) /\ ~Short(ty, q)) =>
            (Returned(HostSeq(q)) /\ read.index = at + 1)
    /\ (rest = <<>> /\ ~Surplus(ty, q)) => Failed("EOF")
    /\ (CutShort(rest) /\ ~Surplus(ty, q) /\ ~Filled(ty, q)) => Failed("EOF")
    /\ Surplus(ty, q) =>
            (Failed("ExpectedListEnd")
                /\ read.index = Len(ListPrefix(SubSeq(q, 1, Len(ty.elems)))) + 1)
    /\ (Filled(ty, q) /\ rest # <<>> /\ rest[1] # END_TOKEN) =>
            (Failed("ExpectedListEnd") /\ read.index = at + 1)

\* C26: for an input l v1 .. vn e the decoder returns exactly the n elements
\* in the order of the input and consumes the closing e; if the input ends
\* before the closing e the result is EOF; if the visitor stops before the e
\* (a tuple, with more elements in the list) the result is ExpectedListEnd.
C26_ListDecoding ==
    (op = "deserialize" /\ ty \in ListTypes) =>
        \A q \in ItemLists :
            StartsWith(read.slice, ListPrefix(q)) =>
                BehindElements(q, Len(ListPrefix(q)),
                    SubSeq(read.slice, Len(ListPrefix(q)) + 1, Len(read.slice)))

\* C26 witness: li1ei20ei1ee asked of a (u8, u8): the third element is where
\* the visitor has stopped
C26_Witness ==
    /\ op = "deserialize" /\ ty = Pair
    /\ read.slice = <<LIST_START, INTEGER_START, B_ONE, END_TOKEN, INTEGER_START,
                      50, B_ZERO, END_TOKEN, INTEGER_START, B_ONE, END_TOKEN,
                      END_TOKEN>>
    /\ Failed("ExpectedListEnd")
    /\ read.index = 9

\* the place of the first `e` of the input s, 0 when it has none
FirstEnd(s) ==
    IF \E p \in 1..Len(s) : s[p] = END_TOKEN
    THEN CHOOSE p \in 1..Len(s) : s[p] = END_TOKEN /\ \A j \in 1..(p - 1) : s[j] # END_TOKEN
    ELSE 0

\* C27: whenever a typed integer decode succeeds, the cursor is exactly one
\* past the `e` that ends that integer: every byte of the integer is
\* consumed and no byte behind it, so that a next value starts at its own
\* first byte.
C27_CursorBehindInteger ==
    (op = "deserialize" /\ ty.k = "int" /\ result.ok) =>
        /\ read.slice[1] = INTEGER_START
        /\ FirstEnd(read.slice) > 2
        /\ read.index = FirstEnd(read.slice)
        /\ CanonicalNumeral(SubSeq(read.slice, 2, FirstEnd(read.slice) - 1))
        /\ result.val =
                HostInt(NumeralValue(SubSeq(read.slice, 2, FirstEnd(read.slice) - 1)))

\* C27 witness: i8e8e asked of a u8: 8 is returned, the cursor behind the
\* first e, two bytes before the end
C27_Witness ==
    /\ op = "deserialize" /\ ty = U8
    /\ read.slice = <<INTEGER_START, 56, END_TOKEN, 56, END_TOKEN>>
    /\ Returned(HostInt(8))
    /\ read.index = 3

\* C28: peek_byte and peek_byte_nth never change the cursor index; a
\* next_byte or next_bytes call that returns EOF leaves the index unchanged;
\* a successful next_byte adds exactly 1 and a successful next_bytes(end)
\* exactly end + 1; hence the index never decreases.
Consuming == {"next_byte", "next_bytes"}

C28_CursorFrame ==
    [][/\ op' \in {"peek_byte", "peek_byte_nth"} => read' = read
       /\ (op' \in Consuming /\ result'.err = "EOF") => read' = read
       /\ (op' = "next_byte" /\ result'.ok) => read'.index = read.index + 1
       /\ (op' = "next_bytes" /\ result'.ok) =>
              read'.index = read.index + value'.n + 1
       /\ (op' \in ReadOps /\ op' # "SliceRead::new") =>
              (read'.index >= read.index /\ read'.slice = read.slice)]_vars

\* C29: decoding terminates with a value or an error: every iteration of a
\* digit-scanning loop and every list or dictionary iteration either leaves
\* its loop or strictly advances the cursor, and the function a loop is left
\* into returns a value or an error.
Looping == op \in ScanLoops \cup VisitLoops /\ data.kind = "continue"

C29_Termination ==
    [][/\ Looping => (data'.kind # "continue" \/ read'.index > read.index)
       /\ data'.kind = "returned" => (result'.ok \/ result'.err # "panic")]_vars


\* C30: the output of to_vec for a value built from integers, text strings,
\* lists, string-keyed maps, structs and optional values is one complete
\* Bencode value (every `l` and `d` closed by its own `e`, every dictionary
\* key followed by exactly one value), and the self-describing decode
\* consumes the whole of it without error.
FirstOf(b, i, x) ==
    IF \E j \in i..Len(b) : b[j] = x
    THEN CHOOSE j \in i..Len(b) : b[j] = x /\ \A l \in i..(j - 1) : b[l] # x
    ELSE 0

RECURSIVE NumberAt(_, _, _)
NumberAt(b, i, j) ==
    IF j < i THEN 0 ELSE 10 * NumberAt(b, i, j - 1) + (b[j] - B_ZERO)

\* the place behind the integer that starts with the `i` at i, 0 if none
IntegerEnd(b, i) ==
    LET j == FirstOf(b, i, END_TOKEN)
        from == IF i < Len(b) /\ b[i + 1] = B_MINUS THEN i + 2 ELSE i + 1
    IN  IF j > from /\ \A l \in from..(j - 1) : IsDigit(b[l]) THEN j + 1 ELSE 0

\* the place behind the byte string whose length starts at i, 0 if none
StringEnd(b, i) ==
    LET j == FirstOf(b, i, BYTES_DELIMITER) IN
    IF j > i /\ (\A l \in i..(j - 1) : IsDigit(b[l]))
        /\ j + NumberAt(b, i, j - 1) <= Len(b)
    THEN j + NumberAt(b, i, j - 1) + 1 ELSE 0

RECURSIVE ValueEnd(_, _)
RECURSIVE ItemsEnd(_, _)
RECURSIVE PairsEnd(_, _)

\* the place behind the one value that starts at i, 0 if there is none
ValueEnd(b, i) ==
    IF i < 1 \/ i > Len(b) THEN 0
    ELSE CASE b[i] = INTEGER_START -> IntegerEnd(b, i)
           [] IsDigit(b[i]) -> StringEnd(b, i)
           [] b[i] = LIST_START -> ItemsEnd(b, i + 1)
           [] b[i] = MAP_START -> PairsEnd(b, i + 1)
           [] OTHER -> 0

\* behind the `e` of a list whose next element would start at i
ItemsEnd(b, i) ==
    IF i < 1 \/ i > Len(b) THEN 0
    ELSE IF b[i] = END_TOKEN THEN i + 1
         ELSE ItemsEnd(b, ValueEnd(b, i))

\* behind the `e` of a dictionary whose next key would start at i
PairsEnd(b, i) ==
    IF i < 1 \/ i > Len(b) THEN 0
    ELSE IF b[i] = END_TOKEN THEN i + 1
         ELSE IF ~IsDigit(b[i]) THEN 0
              ELSE PairsEnd(b, ValueEnd(b, StringEnd(b, i)))

Complete(b) == ValueEnd(b, 1) = Len(b) + 1

C30_EncoderOutputWellFormed ==
    /\ op = "to_vec" => Complete(data)
    /\ op = "from_slice" => (result.ok /\ read.index = Len(read.slice))

====
